---- MODULE Spec2Model ----
(***************************************************************************)
(* gcdeploy: the dual-shell session orchestrator of internal/tui/model.go. *)
(*                                                                         *)
(* The state is the bubbletea Model (the fields the handlers read and      *)
(* write), the commands the runtime still has to run (threads), the local  *)
(* processes, the remote session, and a few history variables that record  *)
(* what was dispatched.  One action per message handler of Model.Update;   *)
(* a handler that calls ContinueDeployment / executeDeploymentStep runs    *)
(* them inside the handler, as Go evaluates call arguments eagerly.        *)
(***************************************************************************)
EXTENDS Naturals, Integers, Sequences, FiniteSets, Bags, TLC

\* ---------------------------------------------------------------- bounds
MaxSteps == 3       \* longest deployment plan that is explored
MaxKeys == 3        \* key presses of the operator per run
MaxFaults == 2      \* environment faults (spawn failure, broken transport) per run
MaxChunks == 12     \* chunks the readers of the panes deliver per run
MaxResizes == 2     \* window-size messages per run
MaxFlood == 101     \* chunks a remote program with much output prints per run

\* ------------------------------------------------------- program constants
ChanCap == 100      \* make(chan []byte, 100)
ErrChanCap == 1     \* make(chan error, 1)
maxReads == 10      \* reads per tick
SettleDelay == 2000 \* tea.Tick(2*time.Second) after a remote step
OutputDelay == 500  \* tea.Tick(500*time.Millisecond)
TickDelay == 50     \* tick()

\* ShellMode / VimMode
RemoteShell == "RemoteShell"
LocalShell == "LocalShell"
InsertMode == "InsertMode"
NormalMode == "NormalMode"

Nil == 0            \* a nil *deploy.TerminalSession

\* ------------------------------------------------------------------ state
VARIABLES
  deploymentSteps,    \* m.deploymentSteps: sequence of [Command, Target]
  command,            \* m.command
  keyFile,            \* the private key on disk: "plain", "encrypted", "invalid"
  terminalSession,    \* m.terminalSession: Nil or a session id
  sessions,           \* number of sessions VMConnectTerminal has opened
  openSessions,       \* sessions whose stdin pipe and transport still work
  needsPassphrase, pendingPassphrase,
  commandInput,       \* m.commandInput.Value()
  echoMode,           \* m.commandInput.EchoMode
  commandHistory,
  shellMode, vimMode,
  currentStep, deploymentRunning, deploymentComplete,
  localContent, remoteContent, \* the panes' text, as chunks in order
  logContent,         \* the log area: its lines, as a bag
  terminalOutputCh, localOutputCh, localErrCh,
  threads,            \* bag of command sequences the runtime is running
  procs,              \* local processes, in spawn order
  quit,               \* tea.Quit was returned
  \* history
  dispatchLog,        \* every Write call and every local spawn, in order
  settleElapsed,      \* a settle-delay tick fired since the last plan Write
  started,            \* number of StartDeploymentScript calls
  connected,          \* number of TerminalConnectedMsg handled
  aborted,            \* a LocalErrorMsg stopped the running plan
  opAdvanced,         \* the LocalOutputMsg of an operator command advanced the plan
  keys, faults,       \* budget used
  lastKey,            \* msg.String() of the last KeyMsg handled
  \* sessions and their readers
  transports,         \* sessions whose SSH client connection is open
  readers,            \* reader goroutines still running: <<session, pipe>>
  loads,              \* the PublicKeyFile calls of the connection attempts
  chunks,             \* chunks read so far from the pipes of each pane
  \* the window
  winSize,            \* <<m.width, m.height>>
  pty,                \* size of the session's pseudo-terminal: [cols, rows]
  resizes,            \* number of WindowSizeMsg handled
  volume,             \* chunks the programs of this run print in total
  debug,              \* m.debug
  ticks,              \* tick() timers that are pending
  \* calls
  writing,            \* goroutines that are inside TerminalSession.Write
  loopIO              \* the commands Update has run and waited for

model == <<needsPassphrase, pendingPassphrase, commandInput, echoMode,
           commandHistory, shellMode, vimMode>>
cursor == <<currentStep, deploymentRunning, deploymentComplete>>
buffers == <<localContent, remoteContent, logContent>>
chans == <<terminalOutputCh, localOutputCh, localErrCh>>
config == <<deploymentSteps, command, keyFile, volume, debug>>
session == <<terminalSession, sessions, openSessions>>
history == <<dispatchLog, settleElapsed, started, connected, aborted,
             opAdvanced>>
io == <<transports, readers, loads, chunks>>
screen == <<winSize, pty, resizes>>
calls == <<writing, loopIO>>
vars == <<config, session, model, cursor, buffers, chans, threads, procs,
          quit, history, keys, lastKey, faults, io, screen, calls, ticks>>

\* ------------------------------------------------------------ the inputs
StepCommands == <<"echo a", "echo b", "echo c", "echo d", "echo e">>
Targets == {"local", "remote"}

\* The plans explored (config.Load accepts any plan whose steps have a command
\* and a valid target): every plan of at most two steps, and the longer plans
\* whose targets alternate.  A step is sequenced by its own target and the
\* next step's, so these cover every adjacent pair at every position.
Alternates(ts) == \A i \in 1..(Len(ts) - 1) : ts[i] # ts[i + 1]

Plans ==
  {ts \in UNION {[1..n -> Targets] : n \in 0..MaxSteps} :
     Len(ts) <= 2 \/ Alternates(ts)}

PlanOf(ts) ==
  [i \in 1..Len(ts) |-> [Command |-> StepCommands[i], Target |-> ts[i]]]

OperatorCommand == "ls"
Passphrases == {"good", "bad"}

\* ------------------------------------------------------ runtime commands
\* A tea.Cmd still to run, or the message it has produced.
\*   k: kind, a: integer argument, o: text argument
Item(k, a, o) == [k |-> k, a |-> a, o |-> o]

TickCmd(d) == Item("tickMsg", d, "")
Thread(items) == SetToBag({items})

\* a sequence with nil commands skipped starts running; an empty one is nothing
Spawn(items) == IF items = <<>> THEN EmptyBag ELSE Thread(items)

\* select { case ch <- v: default: }
TrySend(ch, v, cap) == IF Len(ch) < cap THEN Append(ch, v) ELSE ch

\* ------------------------------------------------------- credential loader
\* a PublicKeyFile that answers a wrong passphrase with ErrPassphraseRequired
PublicKeyFile_AsksAgain(key, passphrase) ==
  IF key = "plain" THEN "ok"
  ELSE IF key = "invalid" THEN "failed to parse private key"
  ELSE IF passphrase = "good" THEN "ok"
  ELSE "passphrase required for SSH key"

\* deploy.PublicKeyFile(file, passphrase) for a readable key file
PublicKeyFile(key, passphrase) ==
  IF key = "plain" THEN "ok"
  ELSE IF key = "invalid" THEN "failed to parse private key"
  ELSE IF passphrase = "" THEN "passphrase required for SSH key"
  ELSE IF passphrase = "good" THEN "ok"
  ELSE "failed to parse private key with passphrase"

ErrPassphraseRequired == "passphrase required for SSH key"

\* the number of ssh.ParsePrivateKeyWithPassphrase calls one PublicKeyFile makes
PassphraseAttempts(key, passphrase) ==
  IF key = "encrypted" /\ passphrase # "" THEN 1 ELSE 0

\* Model.checkPassphraseNeeded
checkPassphraseNeeded ==
  PublicKeyFile(keyFile, "") = ErrPassphraseRequired

\* --------------------------------------------------------- remote session
\* a Write that succeeds as long as the connection of the session exists
WriteOk_IgnoresClose(sid) == sid \in transports

\* TerminalSession.Write: nil error only when every byte was transmitted
WriteOk(sid) == sid \in openSessions

\* deploy.GetInstanceDetails: runs the gcloud CLI and waits for its output
GetInstanceDetails == "gcloud compute instances describe"

\* session.RequestPty("xterm-256color", 80, 24, modes): 24 rows of 80 columns
RequestPty == [cols |-> 80, rows |-> 24]
NoPty == [cols |-> 0, rows |-> 0]

\* a Resize that hands width and height to WindowChange in its own order
Resize_Swapped(width, height) == [cols |-> height, rows |-> width]

\* TerminalSession.Resize(width, height): session.WindowChange(height, width),
\* the size of the pseudo-terminal after it
Resize(width, height) == [cols |-> width, rows |-> height]

\* TerminalSession.Close: closes the stdin pipe and the ssh session; the open
\* sessions after it.  ts.client is not touched.
Close(sid) == openSessions \ {sid}

\* one entry of dispatchLog: a Write call or a local spawn
Dispatch(by, step, target, data, ok, run) ==
  [by |-> by, step |-> step, target |-> target, data |-> data, ok |-> ok,
   run |-> run, comp |-> deploymentComplete, abort |-> aborted,
   settled |-> settleElapsed]

\* ------------------------------------------------------------- sequencer
\* executeDeploymentStep storing stepIndex in currentStep before the bounds
\* check instead of after it
executeDeploymentStep_StoresIndex(stepIndex, run) ==
  IF stepIndex >= Len(deploymentSteps)
  THEN [cur |-> stepIndex, done |-> TRUE, log |-> <<>>,
        cmd |-> <<Item("DeploymentCompleteMsg", 0, "")>>]
  ELSE LET step == deploymentSteps[stepIndex + 1] IN
    IF step.Target = "local"
    THEN [cur |-> stepIndex, done |-> FALSE, log |-> <<>>,
          cmd |-> <<Item("Batch", stepIndex, step.Command)>>]
    ELSE IF terminalSession = Nil
    THEN [cur |-> stepIndex, done |-> FALSE, log |-> <<>>,
          cmd |-> <<Item("LocalErrorMsg", stepIndex,
                         "remote step requires SSH connection")>>]
    ELSE IF ~WriteOk(terminalSession)
    THEN [cur |-> stepIndex, done |-> FALSE,
          log |-> <<Dispatch("plan", stepIndex, "remote",
                             step.Command \o "\n", FALSE, run)>>,
          cmd |-> <<Item("LocalErrorMsg", stepIndex,
                         "failed to send remote command")>>]
    ELSE [cur |-> stepIndex, done |-> FALSE,
          log |-> <<Dispatch("plan", stepIndex, "remote",
                             step.Command \o "\n", TRUE, run)>>,
          cmd |-> <<Item("DeploymentStepMsg", stepIndex + 1, step.Target)>>]

\* Model.executeDeploymentStep(stepIndex), called with deploymentRunning = run.
\* Result: the new currentStep, whether the plan was marked complete, the
\* Write calls made, and the command returned.
executeDeploymentStep(stepIndex, run) ==
  IF stepIndex >= Len(deploymentSteps)
  THEN [cur |-> currentStep, done |-> TRUE, log |-> <<>>,
        cmd |-> <<Item("DeploymentCompleteMsg", 0, "")>>]
  ELSE LET step == deploymentSteps[stepIndex + 1] IN
    IF step.Target = "local"
    THEN [cur |-> stepIndex, done |-> FALSE, log |-> <<>>,
          cmd |-> <<Item("Batch", stepIndex, step.Command)>>]
    ELSE IF terminalSession = Nil
    THEN [cur |-> stepIndex, done |-> FALSE, log |-> <<>>,
          cmd |-> <<Item("LocalErrorMsg", stepIndex,
                         "remote step requires SSH connection")>>]
    ELSE IF ~WriteOk(terminalSession)
    THEN [cur |-> stepIndex, done |-> FALSE,
          log |-> <<Dispatch("plan", stepIndex, "remote",
                             step.Command \o "\n", FALSE, run)>>,
          cmd |-> <<Item("LocalErrorMsg", stepIndex,
                         "failed to send remote command")>>]
    ELSE [cur |-> stepIndex, done |-> FALSE,
          log |-> <<Dispatch("plan", stepIndex, "remote",
                             step.Command \o "\n", TRUE, run)>>,
          cmd |-> <<Item("DeploymentStepMsg", stepIndex + 1, step.Target)>>]

NoStep == [cur |-> currentStep, done |-> FALSE, log |-> <<>>, cmd |-> <<>>]

\* Model.ContinueDeployment
ContinueDeployment ==
  IF ~deploymentRunning THEN NoStep
  ELSE LET r == executeDeploymentStep(currentStep + 1, TRUE) IN
       [r EXCEPT !.cmd = <<TickCmd(OutputDelay)>> \o r.cmd]

\* Model.StartDeploymentScript
StartDeploymentScript ==
  IF Len(deploymentSteps) = 0
  THEN [cur |-> currentStep, run |-> deploymentRunning, comp |-> TRUE,
        log |-> <<>>, cmd |-> <<Item("DeploymentCompleteMsg", 0, "")>>]
  ELSE LET r == executeDeploymentStep(0, TRUE) IN
       [cur |-> r.cur, run |-> ~r.done,
        comp |-> (deploymentComplete \/ r.done),
        log |-> r.log, cmd |-> r.cmd]

\* the cursor after a handler that called ContinueDeployment with result r
CursorAfter(r) ==
  /\ currentStep' = r.cur
  /\ deploymentRunning' = (deploymentRunning /\ ~r.done)
  /\ deploymentComplete' = (deploymentComplete \/ r.done)

\* a plan Write restarts the wait for the settle delay
SettleAfter(log) ==
  IF \E i \in 1..Len(log) : log[i].by = "plan" /\ log[i].target = "remote"
  THEN FALSE ELSE settleElapsed

\* -------------------------------------------------------------- tick drain
Min(a, b) == IF a < b THEN a ELSE b
Take(s, n) == SubSeq(s, 1, n)
Drop(s, n) == SubSeq(s, n + 1, Len(s))

\* tickMsg in terminal mode: reads from terminalOutputCh, then from
\* localOutputCh while reads < maxReads, then one error from localErrCh
remoteReads == Min(maxReads, Len(terminalOutputCh))
localReads == Min(maxReads - remoteReads, Len(localOutputCh))

\* a drain that throws away what it cannot read within maxReads
Drain_DropsRest ==
  /\ remoteContent' = remoteContent \o Take(terminalOutputCh, remoteReads)
  /\ terminalOutputCh' = <<>>
  /\ localOutputCh' = <<>>
  /\ localContent' = localContent \o Take(localOutputCh, localReads)
                       \o (IF localErrCh # <<>>
                           THEN <<"[ERROR] " \o Head(localErrCh)>> ELSE <<>>)
  /\ localErrCh' = IF localErrCh # <<>> THEN Tail(localErrCh) ELSE localErrCh
  /\ logContent' = logContent

Drain ==
  /\ remoteContent' = remoteContent \o Take(terminalOutputCh, remoteReads)
  /\ terminalOutputCh' = Drop(terminalOutputCh, remoteReads)
  /\ localOutputCh' = Drop(localOutputCh, localReads)
  /\ localContent' = localContent \o Take(localOutputCh, localReads)
                       \o (IF localErrCh # <<>>
                           THEN <<"[ERROR] " \o Head(localErrCh)>> ELSE <<>>)
  /\ localErrCh' = IF localErrCh # <<>> THEN Tail(localErrCh) ELSE localErrCh
  /\ logContent' = logContent

\* ------------------------------------------------------------------- Init
\* tui.New, Model.SetInstanceAndCommand and Model.Init have run
Boot ==
  /\ \E ts \in Plans : deploymentSteps = PlanOf(ts)
  /\ command = "uptime"
  /\ keyFile \in {"plain", "encrypted", "invalid"}
  /\ terminalSession = Nil
  /\ sessions = 0
  /\ openSessions = {}
  /\ needsPassphrase = checkPassphraseNeeded
  /\ pendingPassphrase = ""
  /\ commandInput = ""
  /\ echoMode = IF checkPassphraseNeeded THEN "EchoPassword" ELSE "EchoNormal"
  /\ commandHistory = <<>>
  /\ shellMode = RemoteShell
  /\ vimMode = InsertMode
  /\ currentStep = 0
  /\ deploymentRunning = FALSE
  /\ deploymentComplete = FALSE
  /\ localContent = <<"Local Shell Ready">>
  /\ remoteContent = IF checkPassphraseNeeded
                     THEN <<"Passphrase required for SSH key...">>
                     ELSE <<"Connecting to remote terminal...">>
  /\ logContent =
       (IF Len(deploymentSteps) > 0
        THEN SetToBag({"[INFO] Deployment script detected. Starting deployment..."})
        ELSE EmptyBag)
       (+) (IF checkPassphraseNeeded
            THEN SetToBag({"[INFO] SSH key requires a passphrase. Enter it below and press Enter."})
            ELSE EmptyBag)
  /\ terminalOutputCh = <<>>
  /\ localOutputCh = <<>>
  /\ localErrCh = <<>>
  /\ threads = IF checkPassphraseNeeded THEN EmptyBag
               ELSE Thread(<<Item("StartTerminalSession", 0, "")>>)
  /\ procs = <<>>
  /\ quit = FALSE
  /\ dispatchLog = <<>>
  /\ settleElapsed = FALSE
  /\ started = 0
  /\ connected = 0
  /\ aborted = FALSE
  /\ opAdvanced = FALSE
  /\ keys = 0
  /\ lastKey = ""
  /\ faults = 0
  /\ transports = {}
  /\ readers = {}
  /\ loads = <<>>
  /\ chunks = [remote |-> 0, local |-> 0]
  /\ winSize = <<0, 0>>
  /\ pty = NoPty
  /\ resizes = 0
  /\ writing = {}
  /\ loopIO = {}
  /\ ticks = 1

\* a run without the debug flag whose programs print little
Init == Boot /\ volume = MaxChunks /\ debug = FALSE

\* ---------------------------------------------------------------- runtime
Running(t, kind) == BagIn(t, threads) /\ Head(t).k = kind
\* the command at the head of t has run and its message was handled:
\* the rest of the sequence goes on, next to the commands the handler returned
After(t, returned) == ((threads (-) Thread(t)) (+) Spawn(Tail(t))) (+) Spawn(returned)
\* the command at the head of t has run and produced message msg
Produced(t, msg) == (threads (-) Thread(t)) (+) Thread(<<msg>> \o Tail(t))

Log(line) == logContent' = logContent (+) SetToBag({line})

\* tickMsg of the self-rearming tick(): one is always armed (Init, and every
\* tickMsg handler returns tick() again)
tickMsg ==
  /\ ~quit
  /\ ticks > 0
  /\ Drain
  /\ UNCHANGED <<config, ticks, calls, screen, io, session, model, cursor, threads, procs, quit,
                 history, keys, lastKey, faults>>

\* tickMsg of a tea.Tick inside a tea.Sequence (50 ms, 500 ms or 2 s)
SequenceTick ==
  \E t \in BagToSet(threads) :
    /\ ~quit
    /\ Running(t, "tickMsg")
    /\ Drain
    /\ threads' = After(t, <<>>)
    /\ settleElapsed' = (settleElapsed \/ Head(t).a >= SettleDelay)
    /\ ticks' = ticks + 1
    /\ UNCHANGED <<config, calls, screen, io, session, model, cursor, procs, quit, dispatchLog,
                   started, connected, aborted, opAdvanced, keys, lastKey, faults>>

\* DeploymentStepMsg{StepNum: 0, Step: {}} while no plan is running
DeploymentTrigger ==
  \E t \in BagToSet(threads) :
    /\ ~quit
    /\ Running(t, "DeploymentStepMsg")
    /\ Head(t).a = 0 /\ Head(t).o = "" /\ ~deploymentRunning
    /\ LET r == StartDeploymentScript IN
         /\ currentStep' = r.cur
         /\ deploymentRunning' = r.run
         /\ deploymentComplete' = r.comp
         /\ dispatchLog' = dispatchLog \o r.log
         /\ settleElapsed' = SettleAfter(r.log)
         /\ threads' = After(t, r.cmd)
    /\ started' = started + 1
    /\ UNCHANGED <<config, ticks, calls, screen, io, session, model, buffers, chans, procs, quit,
                   connected, aborted, opAdvanced, keys, lastKey, faults>>

NumStr(n) == <<"0", "1", "2", "3", "4", "5", "6">>[n + 1]

StepLine(n, target) ==
  "[STEP] [" \o NumStr(n) \o "/" \o NumStr(Len(deploymentSteps)) \o "] Running "
    \o (IF target = "remote" THEN "remote" ELSE "local") \o ": "
    \o (IF n \in 1..Len(deploymentSteps) THEN deploymentSteps[n].Command ELSE "")

\* DeploymentStepMsg of a step that executeDeploymentStep has dispatched
DeploymentStepMsg ==
  \E t \in BagToSet(threads) :
    /\ ~quit
    /\ Running(t, "DeploymentStepMsg")
    /\ ~(Head(t).a = 0 /\ Head(t).o = "" /\ ~deploymentRunning)
    /\ Log(StepLine(Head(t).a, Head(t).o))
    /\ IF Head(t).o = "remote"
       THEN LET r == ContinueDeployment IN
              /\ CursorAfter(r)
              /\ dispatchLog' = dispatchLog \o r.log
              /\ settleElapsed' = SettleAfter(r.log)
              /\ threads' = After(t, <<TickCmd(SettleDelay)>> \o r.cmd)
       ELSE /\ threads' = After(t, <<>>)
            /\ UNCHANGED <<cursor, dispatchLog, settleElapsed>>
    /\ ticks' = IF Head(t).o = "remote" THEN ticks ELSE ticks + 1
    /\ UNCHANGED <<config, calls, screen, io, session, model, localContent, remoteContent, chans,
                   procs, quit, started, connected, aborted, opAdvanced, keys, lastKey, faults>>

\* tea.Batch(func() tea.Msg { return stepMsg }, m.StartLocalCommand(step.Command))
Batch ==
  \E t \in BagToSet(threads) :
    /\ ~quit
    /\ Running(t, "Batch")
    /\ threads' = (After(t, <<>>)
                    (+) Thread(<<Item("DeploymentStepMsg", Head(t).a + 1, "local")>>))
                    (+) Thread(<<Item("StartLocalCommand", Head(t).a, Head(t).o)>>)
    /\ UNCHANGED <<config, ticks, calls, screen, io, session, model, cursor, buffers, chans, procs, quit,
                   history, keys, lastKey, faults>>

Origin(step) == IF step >= 0 THEN "plan" ELSE "op"

\* the command of StartLocalCommand: exec.Command(shell, "-c", command), Start,
\* the two readers and the waiter
StartLocalCommand ==
  \E t \in BagToSet(threads), ok \in BOOLEAN :
    /\ ~quit
    /\ Running(t, "StartLocalCommand")
    /\ ok \/ faults < MaxFaults
    /\ faults' = IF ok THEN faults ELSE faults + 1
    /\ procs' = IF ok
                THEN Append(procs, [by |-> Origin(Head(t).a), step |-> Head(t).a,
                                    cmd |-> Head(t).o, alive |-> TRUE,
                                    exit |-> 0, out |-> 0,
                                    goroutines |-> {"stdout", "stderr", "wait"}])
                ELSE procs
    /\ threads' = Produced(t, IF ok THEN Item("LocalOutputMsg", Head(t).a, "")
                              ELSE Item("LocalErrorMsg", Head(t).a,
                                        "failed to start command"))
    /\ dispatchLog' = Append(dispatchLog,
                             Dispatch(Origin(Head(t).a), Head(t).a, "local",
                                      Head(t).o, ok, deploymentRunning))
    /\ UNCHANGED <<config, ticks, calls, screen, io, session, model, cursor, buffers, chans, quit,
                   settleElapsed, started, connected, aborted, opAdvanced, keys, lastKey>>

\* LocalOutputMsg{Data: []byte{}}: sent once the local process was started
LocalOutputMsg ==
  \E t \in BagToSet(threads) :
    /\ ~quit
    /\ Running(t, "LocalOutputMsg")
    /\ IF deploymentRunning
       THEN LET r == ContinueDeployment IN
              /\ CursorAfter(r)
              /\ dispatchLog' = dispatchLog \o r.log
              /\ settleElapsed' = SettleAfter(r.log)
              /\ threads' = After(t, <<TickCmd(TickDelay), TickCmd(OutputDelay)>>
                                      \o r.cmd)
              /\ opAdvanced' = (opAdvanced \/ Head(t).a < 0)
       ELSE /\ threads' = After(t, <<>>)
            /\ UNCHANGED <<cursor, dispatchLog, settleElapsed, opAdvanced>>
    /\ ticks' = IF deploymentRunning THEN ticks ELSE ticks + 1
    /\ UNCHANGED <<config, calls, screen, io, session, model, buffers, chans, procs, quit,
                   started, connected, aborted, keys, lastKey, faults>>

\* a LocalErrorMsg handler that also tears the remote session down
LocalErrorMsg_ClosesSession ==
  \E t \in BagToSet(threads) :
    /\ ~quit
    /\ Running(t, "LocalErrorMsg")
    /\ localContent' = Append(localContent, "[ERROR] " \o Head(t).o)
    /\ logContent' = (logContent
         (+) SetToBag({"[ERROR] Local command failed: " \o Head(t).o}))
         (+) (IF deploymentRunning
              THEN SetToBag({"[INFO] Deployment stopped due to error"})
              ELSE EmptyBag)
    /\ deploymentRunning' = FALSE
    /\ aborted' = (aborted \/ deploymentRunning)
    /\ threads' = After(t, <<>>)
    /\ terminalSession' = Nil
    /\ openSessions' = openSessions \ {terminalSession}
    /\ ticks' = ticks + 1
    /\ UNCHANGED <<config, calls, screen, io, sessions, model, currentStep, deploymentComplete,
                   remoteContent, chans, procs, quit, dispatchLog,
                   settleElapsed, started, connected, opAdvanced, keys, lastKey, faults>>

\* LocalErrorMsg: show the error; a running plan stops
LocalErrorMsg ==
  \E t \in BagToSet(threads) :
    /\ ~quit
    /\ Running(t, "LocalErrorMsg")
    /\ localContent' = Append(localContent, "[ERROR] " \o Head(t).o)
    /\ logContent' = (logContent
         (+) SetToBag({"[ERROR] Local command failed: " \o Head(t).o}))
         (+) (IF deploymentRunning
              THEN SetToBag({"[INFO] Deployment stopped due to error"})
              ELSE EmptyBag)
    /\ deploymentRunning' = FALSE
    /\ aborted' = (aborted \/ deploymentRunning)
    /\ threads' = After(t, <<>>)
    /\ ticks' = ticks + 1
    /\ UNCHANGED <<config, calls, screen, io, session, model, currentStep, deploymentComplete,
                   remoteContent, chans, procs, quit, dispatchLog,
                   settleElapsed, started, connected, opAdvanced, keys, lastKey, faults>>

\* a DeploymentCompleteMsg handler that leaves the plan running
DeploymentCompleteMsg_KeepsRunning ==
  \E t \in BagToSet(threads) :
    /\ ~quit
    /\ Running(t, "DeploymentCompleteMsg")
    /\ deploymentRunning' = TRUE
    /\ deploymentComplete' = TRUE
    /\ Log("[SUCCESS] Deployment script completed. SSH session preserved for manual use.")
    /\ threads' = After(t, <<>>)
    /\ ticks' = ticks + 1
    /\ UNCHANGED <<config, calls, screen, io, session, model, currentStep, localContent,
                   remoteContent, chans, procs, quit, history, keys, lastKey, faults>>

DeploymentCompleteMsg ==
  \E t \in BagToSet(threads) :
    /\ ~quit
    /\ Running(t, "DeploymentCompleteMsg")
    /\ deploymentRunning' = FALSE
    /\ deploymentComplete' = TRUE
    /\ Log("[SUCCESS] Deployment script completed. SSH session preserved for manual use.")
    /\ threads' = After(t, <<>>)
    /\ ticks' = ticks + 1
    /\ UNCHANGED <<config, calls, screen, io, session, model, currentStep, localContent,
                   remoteContent, chans, procs, quit, history, keys, lastKey, faults>>

\* ------------------------------------------------------------- connection
\* a connection attempt that sends the plan's trigger message when it fails
StartTerminalSession_StartsPlanAnyway ==
  \E t \in BagToSet(threads), env \in {"ok", "lookup", "dial"} :
    /\ ~quit
    /\ Running(t, "StartTerminalSession")
    /\ env = "ok" \/ faults < MaxFaults
    /\ faults' = IF env = "ok" THEN faults ELSE faults + 1
    /\ LET key == PublicKeyFile(keyFile, Head(t).o)
           err == IF env = "lookup" THEN "failed to get instance details"
                  ELSE IF key # "ok" THEN "failed to load SSH key: " \o key
                  ELSE IF env = "dial" THEN "failed to create SSH client"
                  ELSE "" IN
         /\ loads' = IF env = "lookup" THEN loads
                     ELSE Append(loads, [key |-> keyFile, passphrase |-> Head(t).o,
                                         result |-> key,
                                         attempts |-> PassphraseAttempts(keyFile, Head(t).o)])
         /\ IF err = ""
            THEN /\ sessions' = sessions + 1
                 /\ openSessions' = openSessions \cup {sessions + 1}
                 /\ transports' = transports \cup {sessions + 1}
                 /\ readers' = readers \cup {<<sessions + 1, "stdout">>,
                                              <<sessions + 1, "stderr">>}
                 /\ pty' = RequestPty
                 /\ threads' = Produced(t, Item("TerminalConnectedMsg", sessions + 1, ""))
            ELSE /\ threads' = Produced(t, Item("SSHErrorMsg", 0, err))
                              (+) Thread(<<Item("DeploymentStepMsg", 0, "")>>)
                 /\ UNCHANGED <<sessions, openSessions, transports, readers, pty>>
    /\ UNCHANGED <<config, ticks, calls, winSize, resizes, terminalSession, model, cursor, buffers, chans,
                   procs, quit, history, keys, lastKey, chunks>>

\* the command of StartTerminalSession: deploy.VMConnectTerminal, then the
\* two reader goroutines; lookup and dial can fail in the environment
StartTerminalSession ==
  \E t \in BagToSet(threads), env \in {"ok", "lookup", "dial"} :
    /\ ~quit
    /\ Running(t, "StartTerminalSession")
    /\ env = "ok" \/ faults < MaxFaults
    /\ faults' = IF env = "ok" THEN faults ELSE faults + 1
    /\ LET key == PublicKeyFile(keyFile, Head(t).o)
           err == IF env = "lookup" THEN "failed to get instance details"
                  ELSE IF key # "ok" THEN "failed to load SSH key: " \o key
                  ELSE IF env = "dial" THEN "failed to create SSH client"
                  ELSE "" IN
         /\ loads' = IF env = "lookup" THEN loads
                     ELSE Append(loads, [key |-> keyFile, passphrase |-> Head(t).o,
                                         result |-> key,
                                         attempts |-> PassphraseAttempts(keyFile, Head(t).o)])
         /\ IF err = ""
            THEN /\ sessions' = sessions + 1
                 /\ openSessions' = openSessions \cup {sessions + 1}
                 /\ transports' = transports \cup {sessions + 1}
                 /\ readers' = readers \cup {<<sessions + 1, "stdout">>,
                                              <<sessions + 1, "stderr">>}
                 /\ pty' = RequestPty
                 /\ threads' = Produced(t, Item("TerminalConnectedMsg", sessions + 1, ""))
            ELSE /\ threads' = Produced(t, Item("SSHErrorMsg", 0, err))
                 /\ UNCHANGED <<sessions, openSessions, transports, readers, pty>>
    /\ UNCHANGED <<config, ticks, calls, winSize, resizes, terminalSession, model, cursor, buffers, chans,
                   procs, quit, history, keys, lastKey, chunks>>

\* a TerminalConnectedMsg handler that sends the trigger message twice
TerminalConnectedMsg_TriggersTwice ==
  \E t \in BagToSet(threads) :
    /\ ~quit
    /\ Running(t, "TerminalConnectedMsg")
    /\ terminalSession' = Head(t).a
    /\ Log("[SUCCESS] Terminal connected. Waiting for shell...")
    /\ threads' = After(t, <<Item("DeploymentStepMsg", 0, "")>>)
                    (+) Thread(<<Item("DeploymentStepMsg", 0, "")>>)
    /\ connected' = connected + 1
    /\ loopIO' = loopIO \cup {GetInstanceDetails}
    /\ ticks' = ticks + 1
    /\ UNCHANGED <<config, writing, screen, io, sessions, openSessions, model, cursor, localContent,
                   remoteContent, chans, procs, quit, dispatchLog,
                   settleElapsed, started, aborted, opAdvanced, keys, lastKey, faults>>

TerminalConnectedMsg ==
  \E t \in BagToSet(threads) :
    /\ ~quit
    /\ Running(t, "TerminalConnectedMsg")
    /\ terminalSession' = Head(t).a
    /\ Log("[SUCCESS] Terminal connected. Waiting for shell...")
    /\ threads' = After(t,
         IF Len(deploymentSteps) > 0
         THEN <<Item("DeploymentStepMsg", 0, "")>>
         ELSE IF Head(t).a # Nil /\ command # ""
         THEN <<Item("initialCommand", 0, "")>>
         ELSE <<>>)
    /\ connected' = connected + 1
    /\ loopIO' = loopIO \cup {GetInstanceDetails}
    /\ ticks' = ticks + 1
    /\ UNCHANGED <<config, writing, screen, io, sessions, openSessions, model, cursor, localContent,
                   remoteContent, chans, procs, quit, dispatchLog,
                   settleElapsed, started, aborted, opAdvanced, keys, lastKey, faults>>

\* a goroutine that sends the configured command twice
initialCommand_Twice ==
  \E t \in BagToSet(threads) :
    /\ ~quit
    /\ Running(t, "initialCommand")
    /\ dispatchLog' = Append(Append(dispatchLog,
         Dispatch("init", -1, "remote", command \o "\n",
                  WriteOk(terminalSession), deploymentRunning)),
         Dispatch("init", -1, "remote", command \o "\n",
                  WriteOk(terminalSession), deploymentRunning))
    /\ terminalOutputCh' =
         IF WriteOk(terminalSession) THEN terminalOutputCh
         ELSE TrySend(terminalOutputCh, "[ERROR] Failed to send command", ChanCap)
    /\ threads' = After(t, <<>>)
    /\ writing' = writing \ {"init"}
    /\ UNCHANGED <<config, ticks, loopIO, screen, io, session, model, cursor, buffers, localOutputCh,
                   localErrCh, procs, quit, settleElapsed, started, connected,
                   aborted, opAdvanced, keys, lastKey, faults>>

\* the goroutine of TerminalConnectedMsg: sleep, then Write(m.command + "\n")
initialCommand ==
  \E t \in BagToSet(threads) :
    /\ ~quit
    /\ Running(t, "initialCommand")
    /\ dispatchLog' = Append(dispatchLog,
         Dispatch("init", -1, "remote", command \o "\n",
                  WriteOk(terminalSession), deploymentRunning))
    /\ terminalOutputCh' =
         IF WriteOk(terminalSession) THEN terminalOutputCh
         ELSE TrySend(terminalOutputCh, "[ERROR] Failed to send command", ChanCap)
    /\ threads' = After(t, <<>>)
    /\ writing' = writing \ {"init"}
    /\ UNCHANGED <<config, ticks, loopIO, screen, io, session, model, cursor, buffers, localOutputCh,
                   localErrCh, procs, quit, settleElapsed, started, connected,
                   aborted, opAdvanced, keys, lastKey, faults>>

\* a test that misses an ErrPassphraseRequired wrapped by VMConnectTerminal
IsPassphraseRequired_Unwrapped(err) == err = ErrPassphraseRequired

\* errors.Is(err, ErrPassphraseRequired) || contains "passphrase required"
IsPassphraseRequired(err) == err = "failed to load SSH key: " \o ErrPassphraseRequired

\* an SSHErrorMsg handler that opens the passphrase prompt after any failure
SSHErrorMsg_Reprompts ==
  \E t \in BagToSet(threads) :
    /\ ~quit
    /\ Running(t, "SSHErrorMsg")
    /\ IF IsPassphraseRequired(Head(t).o)
       THEN IF ~needsPassphrase
            THEN /\ needsPassphrase' = TRUE
                 /\ echoMode' = "EchoPassword"
                 /\ Log("[INFO] SSH key requires a passphrase. Enter it below and press Enter.")
            ELSE UNCHANGED <<needsPassphrase, echoMode, logContent>>
       ELSE /\ Log("[ERROR] SSH connection failed: " \o Head(t).o)
            /\ needsPassphrase' = TRUE
            /\ echoMode' = "EchoPassword"
    /\ threads' = After(t, <<>>)
    /\ UNCHANGED <<config, ticks, calls, screen, io, session, pendingPassphrase, commandInput,
                   commandHistory, shellMode, vimMode, cursor, localContent,
                   remoteContent, chans, procs, quit, history, keys, lastKey, faults>>

SSHErrorMsg ==
  \E t \in BagToSet(threads) :
    /\ ~quit
    /\ Running(t, "SSHErrorMsg")
    /\ IF IsPassphraseRequired(Head(t).o)
       THEN IF ~needsPassphrase
            THEN /\ needsPassphrase' = TRUE
                 /\ echoMode' = "EchoPassword"
                 /\ Log("[INFO] SSH key requires a passphrase. Enter it below and press Enter.")
            ELSE UNCHANGED <<needsPassphrase, echoMode, logContent>>
       ELSE /\ Log("[ERROR] SSH connection failed: " \o Head(t).o)
            /\ UNCHANGED <<needsPassphrase, echoMode>>
    /\ threads' = After(t, <<>>)
    /\ UNCHANGED <<config, ticks, calls, screen, io, session, pendingPassphrase, commandInput,
                   commandHistory, shellMode, vimMode, cursor, localContent,
                   remoteContent, chans, procs, quit, history, keys, lastKey, faults>>

\* ------------------------------------------------------------ key presses
Key == ~quit /\ keys < MaxKeys /\ keys' = keys + 1
\* the key msg.String() of the KeyMsg that is handled
Pressed(k) == Key /\ lastKey' = k

\* a passphrase "enter" that leaves the prompt open with its input
PassphraseEnter_KeepsPrompt ==
  /\ Pressed("enter")
  /\ needsPassphrase
  /\ pendingPassphrase' = commandInput
  /\ IF commandInput = ""
     THEN UNCHANGED <<logContent, remoteContent, threads>>
     ELSE /\ Log("[INFO] Passphrase received. Connecting...")
          /\ remoteContent' = <<"Connecting to remote terminal...">>
          /\ threads' = threads (+) Thread(<<Item("StartTerminalSession", 0, commandInput)>>)
  /\ ticks' = IF commandInput = "" THEN ticks ELSE ticks + 1
  /\ UNCHANGED <<config, calls, screen, io, session, needsPassphrase, echoMode, commandInput,
                 commandHistory, shellMode, vimMode, cursor,
                 localContent, chans, procs, quit, history, faults>>

\* KeyMsg while needsPassphrase: "enter"
PassphraseEnter ==
  /\ Pressed("enter")
  /\ needsPassphrase
  /\ pendingPassphrase' = commandInput
  /\ IF commandInput = ""
     THEN UNCHANGED <<needsPassphrase, echoMode, commandInput, logContent,
                      remoteContent, threads>>
     ELSE /\ needsPassphrase' = FALSE
          /\ echoMode' = "EchoNormal"
          /\ commandInput' = ""
          /\ Log("[INFO] Passphrase received. Connecting...")
          /\ remoteContent' = <<"Connecting to remote terminal...">>
          /\ threads' = threads (+) Thread(<<Item("StartTerminalSession", 0, commandInput)>>)
  /\ ticks' = IF commandInput = "" THEN ticks ELSE ticks + 1
  /\ UNCHANGED <<config, calls, screen, io, session, commandHistory, shellMode, vimMode, cursor,
                 localContent, chans, procs, quit, history, faults>>

\* an "esc" at the prompt that leaves the typed text in the command input
PassphraseEsc_KeepsInput ==
  /\ Pressed("esc")
  /\ needsPassphrase
  /\ needsPassphrase' = FALSE
  /\ echoMode' = "EchoNormal"
  /\ commandInput' = commandInput
  /\ Log("[INFO] Passphrase input cancelled")
  /\ UNCHANGED <<config, ticks, calls, screen, io, session, pendingPassphrase, commandHistory, shellMode,
                 vimMode, cursor, localContent, remoteContent, chans, threads,
                 procs, quit, history, faults>>

\* KeyMsg while needsPassphrase: "esc"
PassphraseEsc ==
  /\ Pressed("esc")
  /\ needsPassphrase
  /\ needsPassphrase' = FALSE
  /\ echoMode' = "EchoNormal"
  /\ commandInput' = ""
  /\ Log("[INFO] Passphrase input cancelled")
  /\ UNCHANGED <<config, ticks, calls, screen, io, session, pendingPassphrase, commandHistory, shellMode,
                 vimMode, cursor, localContent, remoteContent, chans, threads,
                 procs, quit, history, faults>>

\* KeyMsg while needsPassphrase: any other key goes to the command input
PassphraseType ==
  \E text \in Passphrases :
    /\ Pressed(text)
    /\ needsPassphrase
    /\ commandInput = ""
    /\ commandInput' = commandInput \o text
    /\ UNCHANGED <<config, ticks, calls, screen, io, session, needsPassphrase, pendingPassphrase,
                   echoMode, commandHistory, shellMode, vimMode, cursor,
                   buffers, chans, threads, procs, quit, history, faults>>

\* "esc": toggles the vim mode
KeyEsc ==
  /\ Pressed("esc")
  /\ ~needsPassphrase
  /\ IF vimMode = InsertMode
     THEN /\ vimMode' = NormalMode
          /\ Log("[INFO] Normal mode (press 'i' to insert, 'q' to quit)")
     ELSE /\ vimMode' = InsertMode
          /\ Log("[INFO] Insert mode")
  /\ ticks' = ticks + 1
  /\ UNCHANGED <<config, calls, screen, io, session, needsPassphrase, pendingPassphrase,
                 commandInput, echoMode, commandHistory, shellMode, cursor,
                 localContent, remoteContent, chans, threads, procs, quit,
                 history, faults>>

\* a "q" that quits in insert mode as well
KeyQuit_AnyMode ==
  /\ Pressed("q")
  /\ ~needsPassphrase
  /\ vimMode \in {NormalMode, InsertMode}
  /\ openSessions' = IF terminalSession # Nil THEN Close(terminalSession)
                     ELSE openSessions
  /\ threads' = threads (+) Thread(<<Item("QuitMsg", 0, "")>>)
  /\ UNCHANGED <<config, ticks, calls, screen, io, terminalSession, sessions, model, cursor, buffers,
                 chans, procs, quit, history, faults>>

\* "q" in normal mode: close the session and return tea.Quit
KeyQuit ==
  /\ Pressed("q")
  /\ ~needsPassphrase
  /\ vimMode = NormalMode
  /\ openSessions' = IF terminalSession # Nil THEN Close(terminalSession)
                     ELSE openSessions
  /\ threads' = threads (+) Thread(<<Item("QuitMsg", 0, "")>>)
  /\ UNCHANGED <<config, ticks, calls, screen, io, terminalSession, sessions, model, cursor, buffers,
                 chans, procs, quit, history, faults>>

\* the QuitMsg of tea.Quit ends the program
QuitMsg ==
  \E t \in BagToSet(threads) :
    /\ ~quit
    /\ Running(t, "QuitMsg")
    /\ quit' = TRUE
    /\ threads' = After(t, <<>>)
    /\ UNCHANGED <<config, ticks, calls, screen, io, session, model, cursor, buffers, chans, procs,
                   history, keys, lastKey, faults>>

\* "i" in normal mode
KeyInsert ==
  /\ Pressed("i")
  /\ ~needsPassphrase
  /\ vimMode = NormalMode
  /\ vimMode' = InsertMode
  /\ Log("[INFO] Insert mode")
  /\ ticks' = ticks + 1
  /\ UNCHANGED <<config, calls, screen, io, session, needsPassphrase, pendingPassphrase,
                 commandInput, echoMode, commandHistory, shellMode, cursor,
                 localContent, remoteContent, chans, threads, procs, quit,
                 history, faults>>

\* keys of the operator other than esc, q, i, shift+tab
OtherKeys == {"enter", "ctrl+c", "up", "x"}

\* any key but esc, q, i, shift+tab in normal mode
KeyIgnored ==
  /\ \E k \in OtherKeys : Pressed(k)
  /\ ~needsPassphrase
  /\ vimMode = NormalMode
  /\ UNCHANGED <<config, ticks, calls, screen, io, session, model, cursor, buffers, chans, threads,
                 procs, quit, history, faults>>

\* a "shift+tab" that selects the local shell and never goes back
KeyShiftTab_OneWay ==
  /\ Pressed("shift+tab")
  /\ ~needsPassphrase
  /\ IF shellMode \in {RemoteShell, LocalShell}
     THEN /\ shellMode' = LocalShell
          /\ Log("[INFO] Switched to local shell mode")
     ELSE /\ shellMode' = RemoteShell
          /\ Log("[INFO] Switched to remote shell mode")
  /\ commandInput' = ""
  /\ UNCHANGED <<config, ticks, calls, screen, io, session, needsPassphrase, pendingPassphrase, echoMode,
                 commandHistory, vimMode, cursor, localContent, remoteContent,
                 chans, threads, procs, quit, history, faults>>

\* "shift+tab": toggles the shell mode, in both vim modes
KeyShiftTab ==
  /\ Pressed("shift+tab")
  /\ ~needsPassphrase
  /\ IF shellMode = RemoteShell
     THEN /\ shellMode' = LocalShell
          /\ Log("[INFO] Switched to local shell mode")
     ELSE /\ shellMode' = RemoteShell
          /\ Log("[INFO] Switched to remote shell mode")
  /\ commandInput' = ""
  /\ UNCHANGED <<config, ticks, calls, screen, io, session, needsPassphrase, pendingPassphrase, echoMode,
                 commandHistory, vimMode, cursor, localContent, remoteContent,
                 chans, threads, procs, quit, history, faults>>

\* a printable key in insert mode goes to the command input
KeyType ==
  \E text \in {OperatorCommand} :
    /\ Pressed(text)
    /\ ~needsPassphrase
    /\ vimMode = InsertMode
    /\ commandInput = ""
    /\ commandInput' = commandInput \o text
    /\ UNCHANGED <<config, ticks, calls, screen, io, session, needsPassphrase, pendingPassphrase,
                   echoMode, commandHistory, shellMode, vimMode, cursor,
                   buffers, chans, threads, procs, quit, history, faults>>

\* "up" in insert mode: the last command of the history
KeyUp ==
  /\ Pressed("up")
  /\ ~needsPassphrase
  /\ vimMode = InsertMode
  /\ commandInput' = IF Len(commandHistory) > 0
                     THEN commandHistory[Len(commandHistory)] ELSE commandInput
  /\ UNCHANGED <<config, ticks, calls, screen, io, session, needsPassphrase, pendingPassphrase, echoMode,
                 commandHistory, shellMode, vimMode, cursor, buffers, chans,
                 threads, procs, quit, history, faults>>

\* an "enter" that sends every command to the remote session
KeyEnter_AlwaysRemote ==
  /\ Pressed("enter")
  /\ ~needsPassphrase
  /\ vimMode = InsertMode
  /\ commandInput' = ""
  /\ IF commandInput = ""
     THEN UNCHANGED <<commandHistory, localContent, threads, terminalOutputCh,
                      dispatchLog>>
     ELSE /\ commandHistory' = Append(commandHistory, commandInput)
          /\ IF shellMode = LocalShell /\ FALSE
             THEN /\ localContent' = Append(localContent, "user@host $ " \o commandInput)
                  /\ threads' = threads (+) Thread(<<Item("StartLocalCommand", -1, commandInput)>>)
                  /\ UNCHANGED <<terminalOutputCh, dispatchLog>>
             ELSE IF terminalSession = Nil
             THEN /\ terminalOutputCh' =
                       TrySend(terminalOutputCh, "[ERROR] Terminal session is nil", ChanCap)
                  /\ UNCHANGED <<localContent, threads, dispatchLog>>
             ELSE /\ dispatchLog' = Append(dispatchLog,
                       Dispatch("op", -1, "remote", commandInput \o "\n",
                                WriteOk(terminalSession), deploymentRunning))
                  /\ terminalOutputCh' =
                       IF ~WriteOk(terminalSession)
                       THEN TrySend(terminalOutputCh, "[ERROR] Failed to send command", ChanCap)
                       ELSE IF debug
                       THEN TrySend(terminalOutputCh, "[DEBUG] Sent command: " \o commandInput, ChanCap)
                       ELSE terminalOutputCh
                  /\ UNCHANGED <<localContent, threads>>
  /\ ticks' = ticks + 1
  /\ UNCHANGED <<config, calls, screen, io, session, needsPassphrase, pendingPassphrase, echoMode,
                 shellMode, vimMode, cursor, remoteContent, logContent,
                 localOutputCh, localErrCh, procs, quit, settleElapsed, started,
                 connected, aborted, opAdvanced, faults>>

\* "enter" in insert mode: the command goes to the selected shell
KeyEnter ==
  /\ Pressed("enter")
  /\ ~needsPassphrase
  /\ vimMode = InsertMode
  /\ commandInput' = ""
  /\ IF commandInput = ""
     THEN UNCHANGED <<commandHistory, localContent, threads, terminalOutputCh,
                      dispatchLog>>
     ELSE /\ commandHistory' = Append(commandHistory, commandInput)
          /\ IF shellMode = LocalShell
             THEN /\ localContent' = Append(localContent, "user@host $ " \o commandInput)
                  /\ threads' = threads (+) Thread(<<Item("StartLocalCommand", -1, commandInput)>>)
                  /\ UNCHANGED <<terminalOutputCh, dispatchLog>>
             ELSE IF terminalSession = Nil
             THEN /\ terminalOutputCh' =
                       TrySend(terminalOutputCh, "[ERROR] Terminal session is nil", ChanCap)
                  /\ UNCHANGED <<localContent, threads, dispatchLog>>
             ELSE /\ dispatchLog' = Append(dispatchLog,
                       Dispatch("op", -1, "remote", commandInput \o "\n",
                                WriteOk(terminalSession), deploymentRunning))
                  /\ terminalOutputCh' =
                       IF ~WriteOk(terminalSession)
                       THEN TrySend(terminalOutputCh, "[ERROR] Failed to send command", ChanCap)
                       ELSE IF debug
                       THEN TrySend(terminalOutputCh, "[DEBUG] Sent command: " \o commandInput, ChanCap)
                       ELSE terminalOutputCh
                  /\ UNCHANGED <<localContent, threads>>
  /\ ticks' = ticks + 1
  /\ UNCHANGED <<config, calls, screen, io, session, needsPassphrase, pendingPassphrase, echoMode,
                 shellMode, vimMode, cursor, remoteContent, logContent,
                 localOutputCh, localErrCh, procs, quit, settleElapsed, started,
                 connected, aborted, opAdvanced, faults>>

\* "ctrl+c" in insert mode: byte 3 to the remote session
KeyCtrlC ==
  /\ Pressed("ctrl+c")
  /\ ~needsPassphrase
  /\ vimMode = InsertMode
  /\ commandInput' = ""
  /\ dispatchLog' = IF terminalSession = Nil THEN dispatchLog
                    ELSE Append(dispatchLog,
                           Dispatch("op", -1, "remote", "^C",
                                    WriteOk(terminalSession), deploymentRunning))
  /\ ticks' = ticks + 1
  /\ UNCHANGED <<config, calls, screen, io, session, needsPassphrase, pendingPassphrase, echoMode,
                 commandHistory, shellMode, vimMode, cursor, buffers, chans,
                 threads, procs, quit, settleElapsed, started, connected,
                 aborted, opAdvanced, faults>>

\* ------------------------------------------------------------ environment
\* a local process exits; the waiter reports a non-zero status on localErrCh
ProcExit ==
  \E p \in 1..Len(procs), code \in {0, 1} :
    /\ ~quit
    /\ procs[p].alive
    /\ code = 0 \/ faults < MaxFaults
    /\ faults' = IF code = 0 THEN faults ELSE faults + 1
    /\ procs' = [procs EXCEPT ![p].alive = FALSE, ![p].exit = code,
                              ![p].goroutines = @ \ {"wait"}]
    /\ localErrCh' = IF code # 0
                     THEN TrySend(localErrCh, "exit status 1", ErrChanCap)
                     ELSE localErrCh
    /\ UNCHANGED <<config, ticks, calls, screen, io, session, model, cursor, buffers, terminalOutputCh,
                   localOutputCh, threads, quit, history, keys, lastKey>>

\* the transport of the session fails
SessionBreaks ==
  /\ ~quit
  /\ faults < MaxFaults
  /\ terminalSession \in openSessions
  /\ openSessions' = openSessions \ {terminalSession}
  /\ faults' = faults + 1
  /\ UNCHANGED <<config, ticks, calls, screen, io, terminalSession, sessions, model, cursor, buffers,
                 chans, threads, procs, quit, history, keys, lastKey>>

Next ==
  \/ tickMsg
  \/ SequenceTick
  \/ DeploymentTrigger
  \/ DeploymentStepMsg
  \/ Batch
  \/ StartLocalCommand
  \/ LocalOutputMsg
  \/ LocalErrorMsg
  \/ DeploymentCompleteMsg
  \/ StartTerminalSession
  \/ TerminalConnectedMsg
  \/ initialCommand
  \/ SSHErrorMsg
  \/ PassphraseEnter
  \/ PassphraseEsc
  \/ PassphraseType
  \/ KeyShiftTab
  \/ KeyType
  \/ KeyEnter
  \/ ProcExit
  \/ SessionBreaks

Spec == Init /\ [][Next]_vars

\* ------------------------------------------------------- unattended runs
\* the key file on disk is replaced while a connection attempt is on its way
\* to os.ReadFile
KeyFileReplaced ==
  \E k \in {"plain", "encrypted", "invalid"} \ {keyFile} :
    /\ ~quit
    /\ faults < MaxFaults
    /\ \E t \in BagToSet(threads) : Head(t).k = "StartTerminalSession"
    /\ keyFile' = k
    /\ faults' = faults + 1
    /\ UNCHANGED <<deploymentSteps, command, volume, debug, ticks, calls, screen, session, model, cursor, buffers,
                   chans, threads, procs, quit, history, keys, lastKey, io>>

\* The program with an operator who only answers the passphrase prompt: the
\* connection attempts, the passphrase keys and the deployment plan.
UnattendedNext ==
  \/ tickMsg
  \/ SequenceTick
  \/ DeploymentTrigger
  \/ DeploymentStepMsg
  \/ Batch
  \/ StartLocalCommand
  \/ LocalOutputMsg
  \/ LocalErrorMsg
  \/ DeploymentCompleteMsg
  \/ StartTerminalSession
  \/ TerminalConnectedMsg
  \/ initialCommand
  \/ SSHErrorMsg
  \/ PassphraseEnter
  \/ PassphraseEsc
  \/ PassphraseType
  \/ ProcExit
  \/ SessionBreaks
  \/ KeyFileReplaced

Unattended == Init /\ [][UnattendedNext]_vars

\* the 800 ms goroutine of the initial command is scheduled: its sleep ends
Startup == Unattended /\ WF_vars(initialCommand)

\* ------------------------------------------------- readers and the panes
\* the data of the n-th chunk read from a pipe
Digit(d) == <<"0", "1", "2", "3", "4", "5", "6", "7", "8", "9">>[d + 1]
ChunkData(pane, n) ==
  (IF pane = "remote" THEN "r" ELSE "l")
    \o (IF n >= 100 THEN Digit(n \div 100) ELSE "")
    \o Digit((n \div 10) % 10) \o Digit(n % 10)

ChunksRead == chunks.remote + chunks.local

\* a stdout reader that appends what it read to the remote pane itself
StdoutChunk_WritesPane ==
  \E r \in readers :
    /\ ~quit
    /\ r[2] = "stdout" /\ r[1] \in openSessions
    /\ ChunksRead < volume
    /\ chunks' = [chunks EXCEPT !.remote = @ + 1]
    /\ remoteContent' = Append(remoteContent, ChunkData("remote", chunks.remote + 1))
    /\ UNCHANGED <<config, ticks, calls, screen, session, model, cursor, localContent,
                   logContent, chans, threads, procs, quit, history, keys,
                   lastKey, faults, transports, readers, loads>>

\* the stdout reader of the session: Read returned n > 0 bytes; the chunk is
\* sent without blocking and skipped when the channel is full
StdoutChunk ==
  \E r \in readers :
    /\ ~quit
    /\ r[2] = "stdout" /\ r[1] \in openSessions
    /\ ChunksRead < volume
    /\ chunks' = [chunks EXCEPT !.remote = @ + 1]
    /\ terminalOutputCh' =
         TrySend(terminalOutputCh, ChunkData("remote", chunks.remote + 1), ChanCap)
    /\ UNCHANGED <<config, ticks, calls, screen, session, model, cursor, buffers, localOutputCh,
                   localErrCh, threads, procs, quit, history, keys, lastKey, faults,
                   transports, readers, loads>>

\* the stderr reader of the session: its send waits for room in the channel
StderrChunk ==
  \E r \in readers :
    /\ ~quit
    /\ r[2] = "stderr" /\ r[1] \in openSessions
    /\ ChunksRead < volume
    /\ Len(terminalOutputCh) < ChanCap
    /\ chunks' = [chunks EXCEPT !.remote = @ + 1]
    /\ terminalOutputCh' =
         Append(terminalOutputCh, ChunkData("remote", chunks.remote + 1))
    /\ UNCHANGED <<config, ticks, calls, screen, session, model, cursor, buffers, localOutputCh,
                   localErrCh, threads, procs, quit, history, keys, lastKey, faults,
                   transports, readers, loads>>

\* Read on a closed or broken session returns an error: the reader returns
ReaderEOF ==
  \E r \in readers :
    /\ ~quit
    /\ r[1] \notin openSessions
    /\ readers' = readers \ {r}
    /\ UNCHANGED <<config, ticks, calls, screen, session, model, cursor, buffers, chans, threads,
                   procs, quit, history, keys, lastKey, faults, transports, loads, chunks>>

\* Read returns an error other than io.EOF: the stdout reader reports it when
\* m.debug is set (without blocking), the stderr reader does not; the reader
\* returns
ReadError ==
  \E r \in readers :
    /\ ~quit
    /\ faults < MaxFaults
    /\ faults' = faults + 1
    /\ readers' = readers \ {r}
    /\ terminalOutputCh' =
         IF r[2] = "stdout" /\ debug
         THEN TrySend(terminalOutputCh, "[TERMINAL READ ERROR]", ChanCap)
         ELSE terminalOutputCh
    /\ UNCHANGED <<config, ticks, calls, screen, session, model, cursor, buffers, localOutputCh,
                   localErrCh, threads, procs, quit, history, keys, lastKey,
                   transports, loads, chunks>>

\* a reader of a running local process: its send waits for room
LocalChunk ==
  \E p \in 1..Len(procs) :
    /\ ~quit
    /\ procs[p].alive
    /\ ChunksRead < volume
    /\ Len(localOutputCh) < ChanCap
    /\ chunks' = [chunks EXCEPT !.local = @ + 1]
    /\ localOutputCh' = Append(localOutputCh, ChunkData("local", chunks.local + 1))
    /\ UNCHANGED <<config, ticks, calls, screen, session, model, cursor, buffers, terminalOutputCh,
                   localErrCh, threads, procs, quit, history, keys, lastKey, faults,
                   transports, readers, loads>>

\* a reader of a local process that forgets the stderr pipe
LocalReaderEOF_StdoutOnly ==
  \E p \in 1..Len(procs), g \in {"stdout"} :
    /\ ~quit
    /\ ~procs[p].alive
    /\ g \in procs[p].goroutines
    /\ procs' = [procs EXCEPT ![p].goroutines = @ \ {g}]
    /\ UNCHANGED <<config, ticks, calls, screen, io, session, model, cursor, buffers, chans,
                   threads, quit, history, keys, lastKey, faults>>

\* a reader of a local process that has exited: Read returns io.EOF (or the
\* error of a pipe that Wait closed) and the reader returns
LocalReaderEOF ==
  \E p \in 1..Len(procs), g \in {"stdout", "stderr"} :
    /\ ~quit
    /\ ~procs[p].alive
    /\ g \in procs[p].goroutines
    /\ procs' = [procs EXCEPT ![p].goroutines = @ \ {g}]
    /\ UNCHANGED <<config, ticks, calls, screen, io, session, model, cursor, buffers, chans,
                   threads, quit, history, keys, lastKey, faults>>

\* The interactive terminal without a deployment plan: the operator's keys,
\* the session and its readers, quitting.
TerminalInit == Init /\ deploymentSteps = <<>> /\ keyFile = "plain"

TerminalNext ==
  \/ tickMsg
  \/ StartTerminalSession
  \/ TerminalConnectedMsg
  \/ initialCommand
  \/ SSHErrorMsg
  \/ KeyEsc
  \/ KeyQuit
  \/ QuitMsg
  \/ KeyShiftTab
  \/ KeyType
  \/ KeyEnter
  \/ KeyCtrlC
  \/ StartLocalCommand
  \/ LocalOutputMsg
  \/ LocalErrorMsg
  \/ ProcExit
  \/ SessionBreaks
  \/ ReaderEOF

Terminal == TerminalInit /\ [][TerminalNext]_vars

\* the reader goroutines are scheduled: a Read that can return does return
TerminalLive == Terminal /\ WF_vars(ReaderEOF)

\* The panes of the interactive terminal: the readers deliver output of the
\* session and of the operator's local commands, the ticks drain it.
PanesNext ==
  \/ tickMsg
  \/ StartTerminalSession
  \/ TerminalConnectedMsg
  \/ initialCommand
  \/ SSHErrorMsg
  \/ KeyShiftTab
  \/ KeyType
  \/ KeyEnter
  \/ StartLocalCommand
  \/ LocalOutputMsg
  \/ LocalErrorMsg
  \/ ProcExit
  \/ StdoutChunk
  \/ StderrChunk
  \/ LocalChunk

Panes == TerminalInit /\ [][PanesNext]_vars

\* The background goroutines of the session and of the operator's local
\* commands; the Go scheduler runs a goroutine whose Read can return.
GoroutinesNext ==
  \/ TerminalNext
  \/ LocalReaderEOF

Goroutines ==
  /\ TerminalInit /\ [][GoroutinesNext]_vars
  /\ WF_vars(ReaderEOF) /\ WF_vars(LocalReaderEOF)

\* The passphrase prompt and the command line: without a plan, the operator
\* answers or cancels the prompt and types commands for both shells.
PromptInit == Init /\ deploymentSteps = <<>>

PromptNext ==
  \/ tickMsg
  \/ StartTerminalSession
  \/ TerminalConnectedMsg
  \/ initialCommand
  \/ SSHErrorMsg
  \/ PassphraseEnter
  \/ PassphraseEsc
  \/ PassphraseType
  \/ KeyShiftTab
  \/ KeyType
  \/ KeyEnter
  \/ StartLocalCommand
  \/ LocalOutputMsg
  \/ LocalErrorMsg
  \/ ProcExit
  \/ KeyFileReplaced

Prompt == PromptInit /\ [][PromptNext]_vars

\* The readers of the remote session, with and without the debug flag: they
\* deliver output, their Read fails or the session ends.
ReadersInit ==
  Boot /\ volume = MaxChunks /\ debug \in BOOLEAN /\ deploymentSteps = <<>> /\ keyFile = "plain"

ReadersNext ==
  \/ tickMsg
  \/ StartTerminalSession
  \/ TerminalConnectedMsg
  \/ initialCommand
  \/ SSHErrorMsg
  \/ StdoutChunk
  \/ StderrChunk
  \/ ReadError
  \/ SessionBreaks
  \/ ReaderEOF

Readers == ReadersInit /\ [][ReadersNext]_vars

\* ------------------------------------------------------------- the window
\* the sizes the terminal emulator reports: <<Width, Height>>
WindowSizes == {<<30, 8>>, <<80, 24>>, <<121, 40>>}

Max(a, b) == IF a > b THEN a ELSE b
\* the split-pane layout of the WindowSizeMsg handler
logAreaHeight == 4
reservedHeight == logAreaHeight + 1 + 1
paneHeight(h) == Max(h - reservedHeight, 5)
paneWidth(w) == Max((w - 1) \div 2, 20)
\* remoteViewport.Style.GetHorizontalFrameSize(): two border cells and the
\* left and right padding of gutter = 2 cells
borderWidth == 2 + 2 * 2
termWidth(w) == paneWidth(w) - borderWidth

\* tea.WindowSizeMsg: new layout; the pseudo-terminal of the session is
\* resized (the error of Resize on a closed session is ignored)
WindowSizeMsg ==
  \E size \in WindowSizes :
    /\ ~quit
    /\ resizes < MaxResizes
    /\ resizes' = resizes + 1
    /\ winSize' = size
    /\ pty' = IF /\ terminalSession # Nil
                 /\ paneWidth(size[1]) > 0 /\ paneHeight(size[2]) > 0
                 /\ termWidth(size[1]) > 0
                 /\ terminalSession \in openSessions
              THEN Resize(termWidth(size[1]), paneHeight(size[2]))
              ELSE pty
    /\ UNCHANGED <<config, ticks, calls, session, model, cursor, buffers, chans, threads,
                   procs, quit, history, keys, lastKey, faults, io>>

\* The interactive terminal in a window that changes its size: the session,
\* its output, the operator's commands.
WindowNext ==
  \/ tickMsg
  \/ StartTerminalSession
  \/ TerminalConnectedMsg
  \/ initialCommand
  \/ SSHErrorMsg
  \/ KeyType
  \/ KeyEnter
  \/ StdoutChunk
  \/ SessionBreaks
  \/ WindowSizeMsg

Window == TerminalInit /\ [][WindowNext]_vars

\* ----------------------------------------------------------- the keyboard
\* "q" in insert mode: a printable key, appended to the command input
KeyRuneQ ==
  /\ Pressed("q")
  /\ ~needsPassphrase
  /\ vimMode = InsertMode
  /\ commandInput' = commandInput \o "q"
  /\ UNCHANGED <<config, ticks, calls, screen, io, session, needsPassphrase, pendingPassphrase,
                 echoMode, commandHistory, shellMode, vimMode, cursor,
                 buffers, chans, threads, procs, quit, history, faults>>

\* The keys of the two vim modes with the session connected or not.
KeyboardNext ==
  \/ tickMsg
  \/ StartTerminalSession
  \/ TerminalConnectedMsg
  \/ initialCommand
  \/ SSHErrorMsg
  \/ KeyEsc
  \/ KeyQuit
  \/ QuitMsg
  \/ KeyInsert
  \/ KeyIgnored
  \/ KeyShiftTab
  \/ KeyRuneQ
  \/ KeyUp
  \/ ReaderEOF

Keyboard == TerminalInit /\ [][KeyboardNext]_vars

\* ------------------------------------------------------------- the flood
\* A remote program that prints more than the output channel holds, on
\* stdout and on stderr; no operator.
FloodInit ==
  Boot /\ volume = MaxFlood /\ debug = FALSE /\ deploymentSteps = <<>> /\ keyFile = "plain"

FloodNext ==
  \/ tickMsg
  \/ StartTerminalSession
  \/ TerminalConnectedMsg
  \/ initialCommand
  \/ SSHErrorMsg
  \/ StdoutChunk
  \/ StderrChunk

Flood == FloodInit /\ [][FloodNext]_vars

\* ------------------------------------------------------------ the writers
\* the goroutine of TerminalConnectedMsg has slept and is inside
\* m.terminalSession.Write; initialCommand is its return from Write
WriteBegins ==
  \E t \in BagToSet(threads) :
    /\ ~quit
    /\ Running(t, "initialCommand")
    /\ "init" \notin writing
    /\ writing' = writing \cup {"init"}
    /\ UNCHANGED <<config, ticks, loopIO, screen, io, session, model, cursor, buffers,
                   chans, threads, procs, quit, history, keys, lastKey, faults>>

\* The call sites of Write without a deployment plan: the goroutine that
\* sends the initial command and the operator's enter and ctrl+c.
WritersNext ==
  \/ tickMsg
  \/ StartTerminalSession
  \/ TerminalConnectedMsg
  \/ WriteBegins
  \/ initialCommand
  \/ SSHErrorMsg
  \/ KeyType
  \/ KeyEnter
  \/ KeyCtrlC
  \/ SessionBreaks

Writers == TerminalInit /\ [][WritersNext]_vars

\* ================================================================ claims
NSteps == Len(deploymentSteps)
Target(i) == deploymentSteps[i + 1].Target
PlanLog == SelectSeq(dispatchLog, LAMBDA e : e.by = "plan")
OpLog == SelectSeq(dispatchLog, LAMBDA e : e.by = "op")
Alive == {p \in 1..Len(procs) : procs[p].alive}
\* nothing is left to run and every reported error was shown
Quiescent == threads = EmptyBag /\ localErrCh = <<>>
\* step i + 1 was dispatched, or the cursor has moved past step i
MovedPast(i) ==
  \/ currentStep > i
  \/ \E k \in 1..Len(PlanLog) : PlanLog[k].step > i

\* C1: while the process of a dispatched local step i is still running, step
\* i + 1 is not dispatched and currentStep does not move past i.
C1_LocalStepWaitsForExit ==
  \A p \in Alive : procs[p].by = "plan" => ~MovedPast(procs[p].step)

\* C2: step i + 1 after a remote step i is dispatched, and currentStep moves
\* to i + 1, only once the settle delay has elapsed since the Write of step i.
C2_RemoteStepWaitsForSettle ==
  /\ \A k \in 1..Len(PlanLog) :
       (PlanLog[k].step > 0 /\ Target(PlanLog[k].step - 1) = "remote")
         => PlanLog[k].settled
  /\ (/\ Len(PlanLog) > 0
      /\ PlanLog[Len(PlanLog)].target = "remote"
      /\ PlanLog[Len(PlanLog)].ok
      /\ currentStep > PlanLog[Len(PlanLog)].step)
       => settleElapsed

\* C3: once the process of a local plan step has exited with a non-zero
\* status and everything was handled, the plan is aborted (not running, never
\* complete), currentStep is the failing step and no later step was dispatched.
C3_NonZeroExitAborts ==
  \A p \in 1..Len(procs) :
    (Quiescent /\ procs[p].by = "plan" /\ ~procs[p].alive /\ procs[p].exit # 0)
      => /\ ~deploymentRunning
         /\ ~deploymentComplete
         /\ currentStep = procs[p].step
         /\ \A k \in 1..Len(PlanLog) : PlanLog[k].step <= procs[p].step

\* C4: at most one local shell process is alive at any time.
C4_OneLocalProcess == Cardinality(Alive) <= 1

\* the plan was started, no LocalErrorMsg stopped it, and nothing is left to run
PlanEnded == started > 0 /\ ~aborted /\ threads = EmptyBag

\* C5 as stated: a plan whose steps all succeed ends Complete with
\* currentStep = N.
C5_EndsCompleteAtN ==
  PlanEnded => /\ deploymentComplete
               /\ ~deploymentRunning
               /\ currentStep = NSteps

\* C5 as amended: a plan that no LocalErrorMsg stops ends Complete with
\* currentStep = N - 1, the index of its last step (2 for local/remote/local).
C5_EndsCompleteAtLastStep ==
  PlanEnded => /\ deploymentComplete
               /\ ~deploymentRunning
               /\ currentStep = NSteps - 1

C5_Witness ==
  /\ PlanEnded
  /\ NSteps = 3
  /\ Target(0) = "local" /\ Target(1) = "remote" /\ Target(2) = "local"
  /\ \A k \in 1..Len(dispatchLog) : dispatchLog[k].ok
  /\ \A p \in 1..Len(procs) : ~procs[p].alive /\ procs[p].exit = 0
  /\ currentStep = 2

\* C6: while no step has failed, the k-th dispatch of the plan is step k - 1,
\* with the step's target and exactly its command text (plus "\n" for a remote
\* step); when the plan has ended every step was dispatched.
C6_EachStepOnceInOrder ==
  (~aborted /\ \A k \in 1..Len(PlanLog) : PlanLog[k].ok)
    => /\ \A k \in 1..Len(PlanLog) :
            /\ PlanLog[k].step = k - 1
            /\ PlanLog[k].target = Target(k - 1)
            /\ PlanLog[k].data =
                 IF Target(k - 1) = "remote"
                 THEN deploymentSteps[k].Command \o "\n"
                 ELSE deploymentSteps[k].Command
       /\ (started > 0 /\ threads = EmptyBag) => Len(PlanLog) = NSteps

\* C7: with an empty plan, once the session is connected and everything was
\* handled, the sequencer is Complete.
C7_EmptyPlanCompletes ==
  (NSteps = 0 /\ connected > 0 /\ threads = EmptyBag) => deploymentComplete

\* C8: the step in which a LocalErrorMsg stops the running plan leaves the
\* remote session as it was (same session, neither closed nor replaced), and
\* a command the operator submits with Enter after that is dispatched to the
\* selected shell: written with "\n" to the session in remote mode, handed to
\* StartLocalCommand in local mode.
C8_FailureOnlyStopsPlan ==
  [][/\ (~aborted /\ aborted')
          => /\ terminalSession # Nil
             /\ terminalSession' = terminalSession
             /\ openSessions' = openSessions
             /\ sessions' = sessions
     /\ (aborted /\ commandInput # "" /\ KeyEnter)
          => IF shellMode = RemoteShell
             THEN /\ Len(dispatchLog') = Len(dispatchLog) + 1
                  /\ dispatchLog'[Len(dispatchLog')].by = "op"
                  /\ dispatchLog'[Len(dispatchLog')].target = "remote"
                  /\ dispatchLog'[Len(dispatchLog')].data = commandInput \o "\n"
             ELSE CopiesIn(<<Item("StartLocalCommand", -1, commandInput)>>, threads')
                    = CopiesIn(<<Item("StartLocalCommand", -1, commandInput)>>, threads) + 1
    ]_vars

C8_Witness ==
  /\ aborted
  /\ terminalSession # Nil
  /\ \E k \in 1..Len(OpLog) : OpLog[k].abort /\ OpLog[k].target = "remote"

\* C9: once the sequencer is Complete or Aborted, deploymentRunning stays
\* false, currentStep no longer changes and no plan step is dispatched.
C9_TerminalIsFinal ==
  [][(deploymentComplete \/ aborted)
       => /\ ~deploymentRunning'
          /\ currentStep' = currentStep
          /\ PlanLog' = PlanLog]_vars

\* C10: no command of the operator is dispatched while the plan is running,
\* and no message of an operator command advances the sequencer.
C10_OperatorCannotInterfere ==
  /\ \A k \in 1..Len(OpLog) : ~OpLog[k].run
  /\ ~opAdvanced

\* C11: StartDeploymentScript runs at most once in the life of the process.
C11_PlanStartsOnce == started <= 1

C11_Witness ==
  /\ started = 1
  /\ deploymentComplete
  /\ threads = EmptyBag
  /\ Len(loads) = 2

\* C12: every PublicKeyFile call of a connection attempt returns a usable
\* handle for an unencrypted key with an empty passphrase and for an encrypted
\* key with the correct passphrase, ErrPassphraseRequired for an encrypted key
\* with an empty passphrase, and an error other than ErrPassphraseRequired for
\* an encrypted key with a wrong passphrase; it tries a passphrase at most once.
C12_CredentialLoader ==
  \A i \in 1..Len(loads) :
    LET l == loads[i] IN
      /\ (l.key = "plain" /\ l.passphrase = "") => l.result = "ok"
      /\ (l.key = "encrypted" /\ l.passphrase = "")
           => l.result = ErrPassphraseRequired
      /\ (l.key = "encrypted" /\ l.passphrase = "good") => l.result = "ok"
      /\ (l.key = "encrypted" /\ l.passphrase \notin {"", "good"})
           => l.result \notin {"ok", ErrPassphraseRequired}
      /\ l.attempts <= 1

C12_Witness ==
  /\ Len(loads) = 2
  /\ loads[1].key = "encrypted" /\ loads[1].passphrase = ""
  /\ loads[1].result = ErrPassphraseRequired
  /\ loads[2].key = "encrypted" /\ loads[2].passphrase = "bad"
  /\ loads[2].attempts = 1

\* the "[ERROR] SSH connection failed" lines in the log
ConnectionErrors ==
  {"failed to get instance details",
   "failed to load SSH key: failed to parse private key",
   "failed to load SSH key: failed to parse private key with passphrase",
   "failed to load SSH key: " \o ErrPassphraseRequired,
   "failed to create SSH client"}
FailureLines(log) ==
  BagCardinality([l \in {"[ERROR] SSH connection failed: " \o e : e \in ConnectionErrors}
                           \cap BagToSet(log)
                    |-> CopiesIn(l, log)])
\* connection attempts that have not reported their result yet
Attempts(ths) ==
  BagCardinality([t \in {u \in BagToSet(ths) :
                            Head(u).k \in {"StartTerminalSession", "TerminalConnectedMsg",
                                            "SSHErrorMsg"}}
                    |-> CopiesIn(t, ths)])

\* C13: handling the failure of an attempt with the wrapped
\* ErrPassphraseRequired opens the passphrase prompt and reports no connection
\* failure; Enter on a non-empty passphrase starts exactly one attempt, with
\* that passphrase, and closes the prompt; Enter on an empty one starts none
\* and leaves the prompt open.
C13_PassphrasePromptRetries ==
  [][/\ \A t \in BagToSet(threads) :
          (/\ Running(t, "SSHErrorMsg")
           /\ Head(t).o = "failed to load SSH key: " \o ErrPassphraseRequired
           /\ threads' = After(t, <<>>))
            => /\ needsPassphrase'
               /\ FailureLines(logContent') = FailureLines(logContent)
     /\ (PassphraseEnter /\ commandInput # "")
          => /\ threads' = threads
                  (+) Thread(<<Item("StartTerminalSession", 0, commandInput)>>)
             /\ Attempts(threads') = Attempts(threads) + 1
             /\ ~needsPassphrase'
     /\ (PassphraseEnter /\ commandInput = "")
          => /\ threads' = threads
             /\ needsPassphrase'
    ]_vars

C13_Witness ==
  /\ Len(loads) = 2
  /\ loads[1].result = ErrPassphraseRequired
  /\ loads[2].passphrase = "good" /\ loads[2].result = "ok"
  /\ connected = 1
  /\ terminalSession # Nil

\* C14: once a connection failure other than passphrase-required has been
\* reported, it is in the log exactly once, there is no remote session, the
\* passphrase prompt is closed and no connection attempt is running.
C14_FatalFailureIsFinal ==
  FailureLines(logContent) > 0
    => /\ FailureLines(logContent) = 1
       /\ terminalSession = Nil
       /\ sessions = 0
       /\ ~needsPassphrase
       /\ Attempts(threads) = 0

C14_Witness ==
  /\ FailureLines(logContent) = 1
  /\ Len(loads) > 0
  /\ loads[Len(loads)].passphrase = "bad"
  /\ loads[Len(loads)].result = "failed to parse private key with passphrase"
  /\ threads = EmptyBag

\* C15: at most one remote session is ever open, and a connection attempt
\* runs only while no session is connected and no other attempt is running.
C15_OneRemoteSession ==
  /\ Cardinality(openSessions) <= 1
  /\ sessions <= 1
  /\ Attempts(threads) + (IF terminalSession # Nil THEN 1 ELSE 0) <= 1

C15_Witness ==
  /\ terminalSession \in openSessions
  /\ Len(loads) = 1
  /\ loads[1].key = "encrypted" /\ loads[1].passphrase = "good"
  /\ Attempts(threads) = 0

\* in one step, either nothing leaves the channel (what was enqueued stays, in
\* order, at its head) or its first n chunks are appended, in order, to the
\* content of the pane
DrainedInOrder(ch, chNext, content, contentNext) ==
  \/ /\ Len(chNext) >= Len(ch)
     /\ Take(chNext, Len(ch)) = ch
  \/ \E n \in 1..Len(ch) :
       /\ chNext = Drop(ch, n)
       /\ Len(contentNext) >= Len(content) + n
       /\ Take(contentNext, Len(content) + n) = content \o Take(ch, n)

\* C16: a chunk enqueued on terminalOutputCh or localOutputCh leaves the
\* channel only by being appended to the content of its pane, once and behind
\* the chunks enqueued before it; no step discards, duplicates or reorders.
C16_DrainKeepsEveryChunk ==
  [][/\ DrainedInOrder(terminalOutputCh, terminalOutputCh',
                       remoteContent, remoteContent')
     /\ DrainedInOrder(localOutputCh, localOutputCh',
                       localContent, localContent')]_vars

\* eleven remote chunks and a local one were read, more than one tick can
\* take, and all of them have been appended
C16_Witness ==
  /\ chunks.remote = 11
  /\ chunks.local = 1
  /\ terminalOutputCh = <<>>
  /\ localOutputCh = <<>>
  /\ Len(remoteContent) >= 11
  /\ remoteContent[Len(remoteContent)] = ChunkData("remote", 11)
  /\ localContent[Len(localContent)] = ChunkData("local", 1)

\* local commands that failed: spawn failures and non-zero exits
LocalFailures ==
  Cardinality({p \in 1..Len(procs) : ~procs[p].alive /\ procs[p].exit # 0})
  + Cardinality({k \in 1..Len(dispatchLog) :
                   dispatchLog[k].target = "local" /\ ~dispatchLog[k].ok})
\* the diagnostics of failed local commands in the local pane
LocalFailureLines ==
  Len(SelectSeq(localContent,
                LAMBDA e : e \in {"[ERROR] exit status 1",
                                  "[ERROR] failed to start command"}))

ErrorMsgs(ths) ==
  BagCardinality([t \in {u \in BagToSet(ths) :
                            \E i \in 1..Len(u) : u[i].k = "LocalErrorMsg"}
                    |-> CopiesIn(t, ths)])

\* C18: whenever a Write to the remote session returns an error (a failed or
\* short write), the caller reports it in the same step: an "[ERROR]" chunk on
\* terminalOutputCh or a LocalErrorMsg.
C18_FailedWriteIsReported ==
  [][(/\ Len(dispatchLog') = Len(dispatchLog) + 1
      /\ dispatchLog'[Len(dispatchLog')].target = "remote"
      /\ ~dispatchLog'[Len(dispatchLog')].ok)
       => \/ /\ Len(terminalOutputCh') = Len(terminalOutputCh) + 1
             /\ terminalOutputCh'[Len(terminalOutputCh')]
                  = "[ERROR] Failed to send command"
          \/ ErrorMsgs(threads') = ErrorMsgs(threads) + 1]_vars

\* the quit commands returned by the "q" handler and not yet delivered
QuitsPending(ths) == CopiesIn(<<Item("QuitMsg", 0, "")>>, ths)

\* C19: a step that calls TerminalSession.Close (the "q" handler with a
\* session) leaves the session closed and its transport, the SSH client
\* connection, closed; a Close of a session that is already closed changes
\* nothing.
C19_CloseEndsSessionAndTransport ==
  [][(QuitsPending(threads') = QuitsPending(threads) + 1 /\ terminalSession # Nil)
       => /\ terminalSession \notin openSessions'
          /\ terminalSession \notin transports'
          /\ terminalSession \notin openSessions
               => UNCHANGED <<openSessions, transports, readers>>]_vars

\* the session of the model was closed (by Close or by a failed transport)
SessionClosed == terminalSession # Nil /\ terminalSession \notin openSessions

\* C20: closing the remote session while its readers are blocked in Read
\* neither stops nor blocks the program: until the program quits a tick can
\* always be handled, every Write to the closed session returns an error, and
\* the readers of the closed session return.
C20_CloseUnderReadIsClean ==
  /\ [](~quit => ENABLED tickMsg)
  /\ [][(/\ Len(dispatchLog') = Len(dispatchLog) + 1
         /\ dispatchLog'[Len(dispatchLog')].target = "remote"
         /\ SessionClosed)
          => ~dispatchLog'[Len(dispatchLog')].ok]_vars
  /\ SessionClosed ~> (quit \/ \A r \in readers : r[1] # terminalSession)

\* Close was called by "q" under both blocked readers; before the program
\* quit the 800 ms goroutine wrote to the closed session and got an error,
\* and both readers returned
C20_Witness ==
  /\ ~quit
  /\ faults = 0
  /\ SessionClosed
  /\ QuitsPending(threads) = 1
  /\ readers = {}
  /\ dispatchLog # <<>>
  /\ dispatchLog[Len(dispatchLog)].by = "init"
  /\ ~dispatchLog[Len(dispatchLog)].ok
  /\ Len(terminalOutputCh) > 0

\* the entry of a Write to the remote session that this step appends
RemoteWrite ==
  /\ Len(dispatchLog') = Len(dispatchLog) + 1
  /\ dispatchLog'[Len(dispatchLog')].target = "remote"

\* C21: a window-size message, at any point, only resizes the pseudo-terminal
\* of the open session: the size after it is the one computed from the
\* message alone (so the same size twice is the same as once), no channel,
\* pane, command or session changes (no chunk is dropped, nothing waits), a
\* tick can still be handled, and a Write to the open session after any
\* number of resizes succeeds.
C21_ResizeOnlyResizes ==
  /\ [][resizes' = resizes + 1
          => /\ UNCHANGED <<chans, buffers, session, io, threads, model>>
             /\ terminalSession \in openSessions
                  => pty' = [cols |-> termWidth(winSize'[1]),
                             rows |-> paneHeight(winSize'[2])]
             /\ terminalSession \notin openSessions => pty' = pty
             /\ ENABLED tickMsg]_vars
  /\ [][(RemoteWrite /\ terminalSession \in openSessions)
          => dispatchLog'[Len(dispatchLog')].ok]_vars

\* the window changed its size twice before any output arrived, the second
\* time to 30 x 8 (both lower limits of the layout apply), and the
\* operator's command written after that was sent
C21_Witness ==
  /\ resizes = 2
  /\ winSize = <<30, 8>>
  /\ pty = [cols |-> 14, rows |-> 5]
  /\ chunks.remote = 0
  /\ terminalSession \in openSessions
  /\ dispatchLog # <<>>
  /\ dispatchLog[Len(dispatchLog)].by = "op"
  /\ dispatchLog[Len(dispatchLog)].ok

\* the operator submits the command input: "enter" in insert mode, no prompt
Submit ==
  /\ keys' = keys + 1
  /\ lastKey' = "enter"
  /\ ~needsPassphrase
  /\ vimMode = InsertMode

\* C22: the program starts in Remote mode.  A submitted non-empty command
\* goes to the selected shell only: in Remote mode command + "\n" is written
\* to the remote session (nothing is written when there is no session) and no
\* local command is started; in Local mode exactly one local command is
\* started, which spawns one process, and nothing is written to the remote
\* session.  An empty submission dispatches nothing and leaves the history.
C22_EnterGoesToSelectedShell ==
  /\ shellMode = RemoteShell
  /\ [][Submit =>
          IF commandInput = ""
          THEN UNCHANGED <<dispatchLog, threads, procs, commandHistory>>
          ELSE IF shellMode = RemoteShell
          THEN /\ terminalSession # Nil
                    => /\ RemoteWrite
                       /\ dispatchLog'[Len(dispatchLog')].by = "op"
                       /\ dispatchLog'[Len(dispatchLog')].data = commandInput \o "\n"
               /\ terminalSession = Nil => UNCHANGED dispatchLog
               /\ UNCHANGED <<threads, procs>>
          ELSE /\ threads' = threads (+)
                     Thread(<<Item("StartLocalCommand", -1, commandInput)>>)
               /\ UNCHANGED <<dispatchLog, procs>>]_vars
  /\ [][(\E t \in BagToSet(threads) :
            Running(t, "StartLocalCommand") /\ ~BagIn(t, threads'))
          => /\ Len(dispatchLog') = Len(dispatchLog) + 1
             /\ dispatchLog'[Len(dispatchLog')].target = "local"
             /\ Len(procs') = Len(procs)
                    + (IF dispatchLog'[Len(dispatchLog')].ok THEN 1 ELSE 0)]_vars

\* the operator switched to Local mode and submitted "ls": one local process
\* runs it, and the only Write to the remote session is the initial command
C22_Witness ==
  /\ shellMode = LocalShell
  /\ lastKey = "enter"
  /\ commandHistory = <<OperatorCommand>>
  /\ Len(procs) = 1
  /\ procs[1].cmd = OperatorCommand
  /\ terminalSession # Nil
  /\ \A i \in 1..Len(dispatchLog) :
        dispatchLog[i].target = "remote" => dispatchLog[i].by = "init"

\* C23: ctrl+c (insert mode, no prompt) interrupts the selected shell: in
\* Remote mode the interrupt byte is written to the remote session; in Local
\* mode nothing is written to the remote session and the running local
\* command is signalled.
C23_CtrlCGoesToSelectedShell ==
  [][(/\ keys' = keys + 1
      /\ lastKey' = "ctrl+c"
      /\ ~needsPassphrase
      /\ vimMode = InsertMode)
       => IF shellMode = RemoteShell
          THEN terminalSession # Nil
                 => /\ RemoteWrite
                    /\ dispatchLog'[Len(dispatchLog')].data = "^C"
          ELSE /\ UNCHANGED dispatchLog
               /\ Alive # {} => procs' # procs]_vars

\* C24: shift+tab (no prompt open) selects the other shell, in insert mode and
\* in normal mode alike, so two presses select the first one again; the
\* remote session with its connection and readers, the panes, the channels,
\* the deployment cursor, the running commands and the vim mode stay as they
\* are.
C24_ShiftTabOnlyTogglesShell ==
  [][(keys' = keys + 1 /\ lastKey' = "shift+tab" /\ ~needsPassphrase)
       => /\ shellMode' = IF shellMode = RemoteShell THEN LocalShell
                          ELSE RemoteShell
          /\ UNCHANGED <<session, io, localContent, remoteContent, chans,
                         cursor, threads, procs, vimMode, dispatchLog>>]_vars

\* in normal mode, with the session connected, shift+tab was pressed twice:
\* the remote shell is selected again
C24_Witness ==
  /\ vimMode = NormalMode
  /\ lastKey = "shift+tab"
  /\ shellMode = RemoteShell
  /\ BagIn("[INFO] Switched to local shell mode", logContent)
  /\ BagIn("[INFO] Switched to remote shell mode", logContent)
  /\ terminalSession \in openSessions

\* C25: "q" (no prompt open) quits in normal mode only: there it closes the
\* terminal session, if any, in the step that issues the quit command; in
\* insert mode it is appended to the command input and nothing is closed or
\* quit.  The program ends only through a quit command, and only that "q"
\* issues one.  In normal mode a key other than esc, q, i and shift+tab
\* changes nothing.
C25_QuitOnlyInNormalMode ==
  /\ [][(keys' = keys + 1 /\ lastKey' = "q" /\ ~needsPassphrase)
          => IF vimMode = NormalMode
             THEN /\ QuitsPending(threads') = QuitsPending(threads) + 1
                  /\ terminalSession # Nil => terminalSession \notin openSessions'
             ELSE /\ commandInput' = commandInput \o "q"
                  /\ UNCHANGED <<session, threads, quit>>]_vars
  /\ [][(quit' /\ ~quit) => QuitsPending(threads) > 0]_vars
  /\ [][QuitsPending(threads') > QuitsPending(threads)
          => lastKey' = "q" /\ vimMode = NormalMode]_vars
  /\ [][(/\ keys' = keys + 1
         /\ ~needsPassphrase
         /\ vimMode = NormalMode
         /\ lastKey' \notin {"esc", "q", "i", "shift+tab"})
          => UNCHANGED <<model, session, cursor, buffers, chans, threads,
                         procs, quit, io, screen, history>>]_vars

\* "q" was typed into the command input in insert mode; after esc, "q" closed
\* the connected session and the program quit
C25_Witness ==
  /\ quit
  /\ lastKey = "q"
  /\ commandInput = "q"
  /\ vimMode = NormalMode
  /\ terminalSession # Nil
  /\ terminalSession \notin openSessions
  /\ faults = 0

\* a tick takes something from a channel (only the drain receives from them)
Drains ==
  \/ Len(terminalOutputCh') < Len(terminalOutputCh)
  \/ Len(localOutputCh') < Len(localOutputCh)
  \/ Len(localErrCh') < Len(localErrCh)

\* C26: a tick moves the first min(10, queued) chunks of the remote channel to
\* the remote pane and the first min(10, queued) chunks of the local channel
\* to the local pane, the second number not depending on the first; a tick
\* can always be handled, whatever the channels hold.
C26_DrainTakesTenOfEach ==
  /\ [](~quit => ENABLED tickMsg)
  /\ [][Drains
          => /\ terminalOutputCh'
                  = Drop(terminalOutputCh, Min(maxReads, Len(terminalOutputCh)))
             /\ remoteContent' = remoteContent
                  \o Take(terminalOutputCh, Min(maxReads, Len(terminalOutputCh)))
             /\ localOutputCh'
                  = Drop(localOutputCh, Min(maxReads, Len(localOutputCh)))
             /\ Take(localContent', Len(localContent) + Min(maxReads, Len(localOutputCh)))
                  = localContent \o Take(localOutputCh, Min(maxReads, Len(localOutputCh)))]_vars

\* C27: the remote stream cannot keep the local stream waiting: every tick
\* that takes chunks from the remote channel also takes at least one chunk
\* from a non-empty local channel and the error from a non-empty local error
\* channel, so with ticks firing the local chunks reach the local pane
\* however many remote chunks are queued at each tick.
C27_RemoteCannotStarveLocal ==
  [][Drains
       => /\ localOutputCh # <<>>
               => /\ Len(localOutputCh') < Len(localOutputCh)
                  /\ \E i \in 1..Len(localContent') :
                        localContent'[i] = Head(localOutputCh)
          /\ localErrCh # <<>> => Len(localErrCh') < Len(localErrCh)]_vars

\* the reader of a pipe of the open session has read a chunk it must deliver
HasChunk(pipe) ==
  /\ ~quit
  /\ ChunksRead < volume
  /\ \E r \in readers : r[2] = pipe /\ r[1] \in openSessions

\* C28: neither reader of the session waits for room in the output channel:
\* whenever it has a chunk to deliver it can go on, and a chunk that meets a
\* full channel (100 chunks) is dropped.
C28_ReadersNeverBlock ==
  /\ [](HasChunk("stdout") => ENABLED StdoutChunk)
  /\ [](HasChunk("stderr") => ENABLED StderrChunk)
  /\ [][(chunks'.remote = chunks.remote + 1 /\ Len(terminalOutputCh) = ChanCap)
          => UNCHANGED terminalOutputCh]_vars

\* C29: no two Write calls on the session overlap: a handler of Update calls
\* Write only while no goroutine is inside Write, and at most one goroutine
\* is inside Write.
C29_WritesNeverOverlap ==
  /\ [](Cardinality(writing) <= 1)
  /\ [][(RemoteWrite /\ dispatchLog'[Len(dispatchLog')].by # "init")
          => writing = {}]_vars

\* C30: Update never waits for the network, a subprocess or a pipe: it has
\* run no command it waited for, and every Write to the remote session is
\* made by a goroutine.
C30_UpdateNeverWaits ==
  /\ loopIO = {}
  /\ \A i \in 1..Len(dispatchLog) :
        dispatchLog[i].target = "remote" => dispatchLog[i].by = "init"

\* s is a prefix of t
IsPrefix(s, t) == Len(s) <= Len(t) /\ SubSeq(t, 1, Len(s)) = s

\* C31: the three content buffers are append-only: every step leaves the old
\* text of the local and of the remote pane as a prefix of the new one, and
\* takes no line from the log.
C31_BuffersAppendOnly ==
  [][/\ IsPrefix(localContent, localContent')
     /\ IsPrefix(remoteContent, remoteContent')
     /\ logContent \sqsubseteq logContent']_vars

\* a step of a background goroutine: a reader delivered a chunk or returned,
\* a local process was started or exited, a connection attempt loaded the key
\* or opened a session, the initial-command sender entered or left Write
Background ==
  \/ chunks' # chunks
  \/ readers' # readers
  \/ procs' # procs
  \/ loads' # loads
  \/ sessions' # sessions
  \/ writing' # writing
  \/ RemoteWrite /\ dispatchLog'[Len(dispatchLog')].by = "init"

\* C32: a step of a background goroutine changes no content buffer and no
\* other field of the Model: what it has to say goes through the channels or
\* through the message it returns, and only Update writes the buffers.
C32_OnlyUpdateWritesBuffers ==
  [][Background => UNCHANGED <<buffers, model, cursor, terminalSession>>]_vars

\* output of the session and of a local command, and the exit error of the
\* command, were sent by the goroutines and appended to the panes by ticks
C32_Witness ==
  /\ chunks.remote > 0
  /\ chunks.local > 0
  /\ \E i \in 1..Len(remoteContent) : remoteContent[i] = ChunkData("remote", 1)
  /\ \E i \in 1..Len(localContent) : localContent[i] = ChunkData("local", 1)
  /\ \E i \in 1..Len(localContent) : localContent[i] = "[ERROR] exit status 1"
  /\ chans = <<<<>>, <<>>, <<>>>>

\* C33: currentStep only moves forward, one step at a time and only after the
\* plan has started, and it moves on only when no process of an earlier local
\* step of the plan is still running: one step is in flight at a time.
C33_OneStepInFlight ==
  [][currentStep' # currentStep
       => /\ currentStep' = currentStep + 1
          /\ started > 0
          /\ \A p \in Alive : procs[p].by # "plan"]_vars

\* a Read of a reader of the remote session failed with an error other than
\* io.EOF
ReadFails == readers' # readers /\ faults' = faults + 1

\* C34: when a Read of a remote reader fails with an error other than
\* end-of-stream, a diagnostic text is enqueued for the remote pane, with or
\* without the debug flag, and the program does not quit.
C34_ReadErrorIsReported ==
  [][ReadFails
       => /\ Len(terminalOutputCh') = Len(terminalOutputCh) + 1
          /\ terminalOutputCh'[Len(terminalOutputCh')] = "[TERMINAL READ ERROR]"
          /\ ~quit']_vars

C36_OneTickChain ==
  /\ [](~quit => ticks >= 1)
  /\ [][keys' = keys + 1 => ticks' <= ticks]_vars

\* the texts a content buffer or a channel would hold if it showed text s
Shown(s) == {s, "user@host $ " \o s, "[DEBUG] Sent command: " \o s}
InSeq(xs, set) == \E i \in 1..Len(xs) : xs[i] \in set

\* C37: a passphrase typed at the prompt never reaches the command history, a
\* content buffer, a channel, the remote session or the local runner; the text
\* of the prompt only leaves the command input as the passphrase of a new
\* connection attempt or is discarded; and the input is masked exactly while
\* needsPassphrase is true.
C37_PassphraseStaysSecret ==
  /\ [](needsPassphrase <=> echoMode = "EchoPassword")
  /\ [](\A s \in Passphrases :
         /\ ~InSeq(commandHistory, {s})
         /\ ~InSeq(localContent, Shown(s))
         /\ ~InSeq(remoteContent, Shown(s))
         /\ \A line \in BagToSet(logContent) : line \notin Shown(s)
         /\ ~InSeq(terminalOutputCh, Shown(s))
         /\ ~InSeq(localOutputCh, Shown(s))
         /\ \A i \in 1..Len(dispatchLog) : dispatchLog[i].data \notin {s, s \o "\n"}
         /\ \A i \in 1..Len(procs) : procs[i].cmd # s
         /\ \A t \in BagToSet(threads) :
              \A i \in 1..Len(t) : t[i].k = "StartLocalCommand" => t[i].o # s)
  /\ [][(needsPassphrase /\ commandInput # "" /\ commandInput' # commandInput)
        => /\ commandInput' = ""
           /\ \/ threads' = threads
              \/ threads' = threads (+)
                    Thread(<<Item("StartTerminalSession", 0, commandInput)>>)]_vars

\* the operator answered the prompt, the session was connected with the
\* passphrase, and a command was typed into the unmasked input afterwards
C37_Witness ==
  /\ connected > 0
  /\ pendingPassphrase \in Passphrases
  /\ ~needsPassphrase
  /\ echoMode = "EchoNormal"
  /\ commandInput = OperatorCommand

\* C38: the plan runs only on a connected session: deploymentRunning implies
\* a non-nil terminalSession, the plan starts only after a TerminalConnectedMsg
\* was handled, no step meets the "remote step requires SSH connection"
\* branch, and without a connection nothing of the plan happens.
C38_PlanNeedsSession ==
  /\ deploymentRunning => terminalSession # Nil
  /\ started > 0 => connected > 0 /\ terminalSession # Nil
  /\ \A t \in BagToSet(threads) : \A i \in 1..Len(t) :
       t[i].o # "remote step requires SSH connection"
  /\ connected = 0 =>
       /\ ~deploymentRunning /\ ~deploymentComplete /\ currentStep = 0
       /\ PlanLog = <<>>
       /\ \A i \in 1..Len(procs) : procs[i].by # "plan"

\* the operator answered the passphrase prompt, the session was connected,
\* and the plan runs on it: its remote step was written to the session
C38_Witness ==
  /\ keyFile = "encrypted"
  /\ connected = 1
  /\ terminalSession # Nil
  /\ deploymentRunning
  /\ PlanLog # <<>>
  /\ PlanLog[1].target = "remote"
  /\ PlanLog[1].ok

\* executeDeploymentStep has handed step i out: its Write or its spawn is in
\* the dispatch log, or its local command is about to be started
Handed(i) ==
  \/ \E k \in 1..Len(PlanLog) : PlanLog[k].step = i
  \/ \E t \in BagToSet(threads) : \E j \in 1..Len(t) :
       t[j].k \in {"Batch", "StartLocalCommand"} /\ t[j].a = i

InitWrites == SelectSeq(dispatchLog, LAMBDA e : e.by = "init")

\* C40: with an empty plan the configured command plus "\n" is written to
\* the remote session by one Write, after the session was connected, and that
\* Write does happen; with a plan nothing ever writes the configured command.
C40_InitialCommandOnce ==
  /\ [](Len(InitWrites) <= 1)
  /\ [](\A k \in 1..Len(InitWrites) :
         /\ InitWrites[k].data = command \o "\n"
         /\ InitWrites[k].target = "remote"
         /\ connected > 0 /\ terminalSession # Nil
         /\ NSteps = 0)
  /\ [](NSteps > 0 =>
         \A k \in 1..Len(dispatchLog) : dispatchLog[k].data # command \o "\n")
  /\ (NSteps = 0 /\ command # "" /\ connected > 0) ~> (Len(InitWrites) = 1)

\* without a plan the session was connected and the goroutine wrote the
\* configured command to it
C40_Witness ==
  /\ NSteps = 0
  /\ connected = 1
  /\ Len(InitWrites) = 1
  /\ InitWrites[1].ok
  /\ InitWrites[1].data = "uptime\n"
  /\ threads = EmptyBag

====
